---- MODULE Spec2Model ----
(***************************************************************************)
(* Timetable allocation engine of the smart-classroom-scheduler backend:   *)
(* the timetable routes (generate / approve / publish / add, update and    *)
(* delete entry), the conflict query checkTimetableConflicts and the       *)
(* greedy generator generateTimetableEntries; the transaction of a         *)
(* generation run; the leave-request routes and the substitution routes.   *)
(*                                                                         *)
(* Times of day are modelled by their hour ('09:00:00' is 9): every time   *)
(* the generator uses is a whole hour and only their order matters.  Ids   *)
(* of catalog rows are positive integers; 0 stands for a field that is     *)
(* absent from a request body (falsy in JavaScript), "" for an absent      *)
(* string field, and for a null foreign key.  Dates are day numbers: the   *)
(* weekday of date d is daysOfWeek[d % 7], so 1, 8 and 15 are Mondays.     *)
(***************************************************************************)
EXTENDS Integers, Sequences, FiniteSets, TLC

VARIABLES
    batches,          \* rows of Batch loaded for the timetable: <<[id, strength]>>
    subjects,         \* rows of Subject: <<[id, lectureHoursPerWeek, ...]>>
    faculty,          \* rows of Faculty that are active: <<[id]>>
    classrooms,       \* rows of Classroom: <<[id, capacity, isLab]>>
    facultySubjects,  \* active rows of FacultySubject: <<[facultyId, subjectId, preference]>>
    status,           \* Timetable.status
    entries,          \* rows of TimetableEntry of the timetable (a set of records)
    timetableEntries, \* value returned by generateTimetableEntries in the last run
    timetable,        \* the other columns of the Timetable row: [startDate, endDate, isActive]
    users,            \* Users.department of each Faculty row: facultyId -> department
    FacultySubjects,  \* the table: <<[facultyId, subjectId, preference, isActive]>>
    leaveRequests,    \* rows of LeaveRequest (a set of records)
    substitutions,    \* rows of Substitution (a set of records)
    pc,               \* client -> the step its POST /:id/generate request is at
    tx                \* client -> the uncommitted writes of its transaction

leaveVars == <<timetable, users, FacultySubjects, leaveRequests, substitutions>>

txVars == <<pc, tx>>

vars == <<batches, subjects, faculty, classrooms, facultySubjects,
          status, entries, timetableEntries, leaveVars, txVars>>

catalog == <<batches, subjects, faculty, classrooms, facultySubjects>>

(***************************************************************************)
(* Bounds of the model.                                                    *)
(***************************************************************************)
MaxHours == 2
MaxEntries == 3
MaxLeaves == 2
MaxTime == 4

TimetableId == 1

Preferences == {4, 9}
FacultyIds == {1, 2}

(***************************************************************************)
(* generateTimetableEntries: the fixed catalogs.                           *)
(***************************************************************************)
days == <<"Monday", "Tuesday", "Wednesday", "Thursday", "Friday", "Saturday">>

\* A slot catalog whose first two slots overlap.
timeSlotsOverlapping == << [start |-> 9,  end |-> 11], [start |-> 10, end |-> 12],
                           [start |-> 12, end |-> 13], [start |-> 14, end |-> 15],
                           [start |-> 15, end |-> 16], [start |-> 16, end |-> 17] >>

timeSlots == << [start |-> 9,  end |-> 10], [start |-> 10, end |-> 11],
                [start |-> 11, end |-> 12], [start |-> 12, end |-> 13],
                [start |-> 14, end |-> 15], [start |-> 15, end |-> 16],
                [start |-> 16, end |-> 17] >>

\* The key `${timeSlot.start}-${timeSlot.end}` of the occupancy maps.
SlotKey(timeSlot) == <<timeSlot.start, timeSlot.end>>

Range(s) == {s[i] : i \in DOMAIN s}

(***************************************************************************)
(* facultyPreferences: per subject, the eligibility rows in input order,   *)
(* then sorted by descending preference (Array.prototype.sort is stable).  *)
(***************************************************************************)
RECURSIVE SelectRows(_, _)
SelectRows(rows, subjectId) ==
    IF rows = <<>> THEN <<>>
    ELSE LET fs == Head(rows)
             rest == SelectRows(Tail(rows), subjectId)
         IN IF fs.subjectId = subjectId
            THEN <<[facultyId |-> fs.facultyId, preference |-> fs.preference]>> \o rest
            ELSE rest

\* An insertion that sorts by ascending preference.
RECURSIVE InsertByPreferenceAscending(_, _)
InsertByPreferenceAscending(sorted, x) ==
    IF sorted = <<>> THEN <<x>>
    ELSE IF Head(sorted).preference - x.preference > 0
         THEN <<x>> \o sorted
         ELSE <<Head(sorted)>> \o InsertByPreferenceAscending(Tail(sorted), x)

\* Insert x behind every element that does not sort after it (stable).
RECURSIVE InsertByPreference(_, _)
InsertByPreference(sorted, x) ==
    IF sorted = <<>> THEN <<x>>
    ELSE IF x.preference - Head(sorted).preference > 0
         THEN <<x>> \o sorted
         ELSE <<Head(sorted)>> \o InsertByPreference(Tail(sorted), x)

RECURSIVE SortByPreference(_)
SortByPreference(list) ==
    IF list = <<>> THEN <<>>
    ELSE InsertByPreference(SortByPreference(SubSeq(list, 1, Len(list) - 1)),
                            list[Len(list)])

facultyPreferences(rows, subjectId) == SortByPreference(SelectRows(rows, subjectId))

(***************************************************************************)
(* The occupancy tracker assignedSlots: kind -> id -> set of <<day, key>>. *)
(* Only the ids of the loaded faculty, batches and classrooms have a map;  *)
(* reading the day of a missing map throws a TypeError.                    *)
(***************************************************************************)
InitAssignedSlots(fac, bat, cls) ==
    [faculty   |-> [id \in {f.id : f \in Range(fac)} |-> {}],
     batch     |-> [id \in {b.id : b \in Range(bat)} |-> {}],
     classroom |-> [id \in {c.id : c \in Range(cls)} |-> {}]]

isSlotAssigned(dayMap, day, timeSlot) == <<day, SlotKey(timeSlot)>> \in dayMap

markSlotAsAssigned(dayMap, day, timeSlot) == dayMap \cup {<<day, SlotKey(timeSlot)>>}

\* FindClassroom without the rule that a practical needs a lab.
RECURSIVE FindClassroomAnyRoom(_, _, _, _, _, _, _)
FindClassroomAnyRoom(assignedSlots, cls, i, type, batch, day, timeSlot) ==
    IF i > Len(cls) THEN 0
    ELSE LET classroom == cls[i]
             next == FindClassroomAnyRoom(assignedSlots, cls, i + 1, type, batch,
                                          day, timeSlot)
         IN IF isSlotAssigned(assignedSlots.classroom[classroom.id], day, timeSlot)
            THEN next
            ELSE IF classroom.capacity < batch.strength THEN next
            ELSE i

\* FindClassroom that wants a room strictly larger than the batch.
RECURSIVE FindClassroomStrictlyLarger(_, _, _, _, _, _, _)
FindClassroomStrictlyLarger(assignedSlots, cls, i, type, batch, day, timeSlot) ==
    IF i > Len(cls) THEN 0
    ELSE LET classroom == cls[i]
             next == FindClassroomStrictlyLarger(assignedSlots, cls, i + 1, type,
                                                 batch, day, timeSlot)
         IN IF type = "practical" /\ ~classroom.isLab THEN next
            ELSE IF type # "practical" /\ classroom.isLab THEN next
            ELSE IF isSlotAssigned(assignedSlots.classroom[classroom.id], day, timeSlot)
                 THEN next
            ELSE IF classroom.capacity <= batch.strength THEN next
            ELSE i

\* FindClassroom that lets a lecture or a tutorial into a lab.
RECURSIVE FindClassroomLabsForAll(_, _, _, _, _, _, _)
FindClassroomLabsForAll(assignedSlots, cls, i, type, batch, day, timeSlot) ==
    IF i > Len(cls) THEN 0
    ELSE LET classroom == cls[i]
             next == FindClassroomLabsForAll(assignedSlots, cls, i + 1, type, batch,
                                             day, timeSlot)
         IN IF type = "practical" /\ ~classroom.isLab THEN next
            ELSE IF isSlotAssigned(assignedSlots.classroom[classroom.id], day, timeSlot)
                 THEN next
            ELSE IF classroom.capacity < batch.strength THEN next
            ELSE i

\* The classroom loop of assignSessions: index of the first classroom in
\* catalog order that is compatible and free, 0 if there is none.
RECURSIVE FindClassroom(_, _, _, _, _, _, _)
FindClassroom(assignedSlots, cls, i, type, batch, day, timeSlot) ==
    IF i > Len(cls) THEN 0
    ELSE LET classroom == cls[i]
             next == FindClassroom(assignedSlots, cls, i + 1, type, batch, day, timeSlot)
         IN IF type = "practical" /\ ~classroom.isLab THEN next
            ELSE IF type # "practical" /\ classroom.isLab THEN next
            ELSE IF isSlotAssigned(assignedSlots.classroom[classroom.id], day, timeSlot)
                 THEN next
            ELSE IF classroom.capacity < batch.strength THEN next
            ELSE i

\* The faculty loop: "found" with the faculty and classroom committed,
\* "none" when the list is exhausted, "throw" when the occupancy map of the
\* faculty is undefined.
RECURSIVE TryFaculty(_, _, _, _, _, _, _, _)
TryFaculty(assignedSlots, cls, preferredFaculty, k, type, batch, day, timeSlot) ==
    IF k > Len(preferredFaculty) THEN [kind |-> "none"]
    ELSE LET facultyId == preferredFaculty[k].facultyId
             next == TryFaculty(assignedSlots, cls, preferredFaculty, k + 1,
                                type, batch, day, timeSlot)
         IN IF facultyId \notin DOMAIN assignedSlots.faculty THEN [kind |-> "throw"]
            ELSE IF isSlotAssigned(assignedSlots.faculty[facultyId], day, timeSlot)
                 THEN next
            ELSE IF isSlotAssigned(assignedSlots.batch[batch.id], day, timeSlot)
                 THEN next
            ELSE LET c == FindClassroom(assignedSlots, cls, 1, type, batch, day, timeSlot)
                 IN IF c = 0 THEN next
                    ELSE [kind |-> "found", day |-> day, timeSlot |-> timeSlot,
                          facultyId |-> facultyId, classroomId |-> cls[c].id]

\* The day and slot loops: slots of days[d] from index s on, then later days.
RECURSIVE TrySlots(_, _, _, _, _, _, _)
TrySlots(assignedSlots, cls, preferredFaculty, d, s, type, batch) ==
    IF d > Len(days) THEN [kind |-> "none"]
    ELSE IF s > Len(timeSlots)
         THEN TrySlots(assignedSlots, cls, preferredFaculty, d + 1, 1, type, batch)
    ELSE LET r == TryFaculty(assignedSlots, cls, preferredFaculty, 1, type, batch,
                             days[d], timeSlots[s])
         IN IF r.kind = "none"
            THEN TrySlots(assignedSlots, cls, preferredFaculty, d, s + 1, type, batch)
            ELSE r

\* State of one run: the entries pushed so far, the tracker, and whether
\* the run has thrown.
NewEntry(r, type, subject, batch) ==
    [timetableId |-> TimetableId, day |-> r.day,
     startTime |-> r.timeSlot.start, endTime |-> r.timeSlot.end,
     subjectId |-> subject.id, facultyId |-> r.facultyId,
     batchId |-> batch.id, classroomId |-> r.classroomId, type |-> type]

\* Commit that forgets to mark the classroom as occupied.
CommitClassroomUnmarked(run, r, type, subject, batch) ==
    [entries |-> Append(run.entries, NewEntry(r, type, subject, batch)),
     assignedSlots |->
        [faculty |-> [run.assignedSlots.faculty EXCEPT ![r.facultyId] =
                        markSlotAsAssigned(@, r.day, r.timeSlot)],
         batch |-> [run.assignedSlots.batch EXCEPT ![batch.id] =
                        markSlotAsAssigned(@, r.day, r.timeSlot)],
         classroom |-> run.assignedSlots.classroom],
     threw |-> FALSE]

Commit(run, r, type, subject, batch) ==
    [entries |-> Append(run.entries, NewEntry(r, type, subject, batch)),
     assignedSlots |->
        [faculty |-> [run.assignedSlots.faculty EXCEPT ![r.facultyId] =
                        markSlotAsAssigned(@, r.day, r.timeSlot)],
         batch |-> [run.assignedSlots.batch EXCEPT ![batch.id] =
                        markSlotAsAssigned(@, r.day, r.timeSlot)],
         classroom |-> [run.assignedSlots.classroom EXCEPT ![r.classroomId] =
                        markSlotAsAssigned(@, r.day, r.timeSlot)]],
     threw |-> FALSE]

\* assignSessions: the while loop, with assignedSessions sessions placed.
RECURSIVE assignSessions(_, _, _, _, _, _, _, _)
assignSessions(run, cls, rows, type, sessionsPerWeek, assignedSessions, subject, batch) ==
    IF run.threw \/ ~(assignedSessions < sessionsPerWeek) THEN run
    ELSE LET r == TrySlots(run.assignedSlots, cls, facultyPreferences(rows, subject.id),
                           1, 1, type, batch)
         IN IF r.kind = "throw" THEN [run EXCEPT !.threw = TRUE]
            ELSE IF r.kind = "none" THEN run
            ELSE assignSessions(Commit(run, r, type, subject, batch), cls, rows, type,
                                sessionsPerWeek, assignedSessions + 1, subject, batch)

\* Body of subjects.forEach for one (batch, subject).
AssignSubject(run, cls, rows, subject, batch) ==
    LET afterLecture == assignSessions(run, cls, rows, "lecture",
                            subject.lectureHoursPerWeek, 0, subject, batch)
        afterTutorial == assignSessions(afterLecture, cls, rows, "tutorial",
                            subject.tutorialHoursPerWeek, 0, subject, batch)
    IN assignSessions(afterTutorial, cls, rows, "practical",
                      subject.practicalHoursPerWeek, 0, subject, batch)

\* batches.forEach(batch => subjects.forEach(...)), from pair (b, s) on.
RECURSIVE AssignAll(_, _, _, _, _, _, _)
AssignAll(run, bat, sub, cls, rows, b, s) ==
    IF b > Len(bat) THEN run
    ELSE IF s > Len(sub) THEN AssignAll(run, bat, sub, cls, rows, b + 1, 1)
    ELSE AssignAll(AssignSubject(run, cls, rows, sub[s], bat[b]),
                   bat, sub, cls, rows, b, s + 1)

generateTimetableEntries(bat, sub, fac, cls, rows) ==
    AssignAll([entries |-> <<>>, assignedSlots |-> InitAssignedSlots(fac, bat, cls),
               threw |-> FALSE],
              bat, sub, cls, rows, 1, 1)

(***************************************************************************)
(* The TimetableEntry table.                                               *)
(***************************************************************************)
\* A stored row: the given attributes and the defaults of the model.  The
\* primary key (a UUID) is not a field: a row is its own key, and a request
\* that names an entry id names the row.
Row(e) ==
    [timetableId |-> e.timetableId, day |-> e.day,
     startTime |-> e.startTime, endTime |-> e.endTime, subjectId |-> e.subjectId,
     facultyId |-> e.facultyId, batchId |-> e.batchId, classroomId |-> e.classroomId,
     type |-> e.type, isSubstitution |-> FALSE, originalFacultyId |-> 0]

\* TimetableEntry.bulkCreate into the emptied table.
BulkCreate(list) == {Row(list[i]) : i \in DOMAIN list}

\* The key of no row (excludeEntryId = null, or an id that is not stored).
NoEntry == Row([timetableId |-> 0, day |-> "", startTime |-> 0, endTime |-> 0,
                subjectId |-> 0, facultyId |-> 0, batchId |-> 0, classroomId |-> 0,
                type |-> ""])

\* JavaScript's a || b on numbers and on strings.
OrNum(a, b) == IF a = 0 THEN b ELSE a
OrStr(a, b) == IF a = "" THEN b ELSE a

(***************************************************************************)
(* checkTimetableConflicts.  The object literal whereClause names the key  *)
(* [Op.or] twice; the second property (the three resource clauses)         *)
(* replaces the first (the four time clauses), so the query that runs      *)
(* filters on timetableId, day, the resources and the excluded id only.    *)
(***************************************************************************)
\* The first [Op.or] property: the four time clauses.
TimeClauses(e, startTime, endTime) ==
    \/ e.startTime < endTime /\ e.startTime >= startTime
    \/ e.endTime <= endTime /\ e.endTime > startTime
    \/ e.startTime >= startTime /\ e.endTime <= endTime
    \/ e.startTime <= startTime /\ e.endTime >= endTime

\* Resource clauses that leave out the batch and the classroom.
ResourceClausesFacultyOnly(e, facultyId, batchId, classroomId) ==
    e.facultyId = facultyId

\* Resource clauses that leave out the classroom.
ResourceClausesNoClassroom(e, facultyId, batchId, classroomId) ==
    \/ e.facultyId = facultyId
    \/ e.batchId = batchId

\* The second [Op.or] property: the three resource clauses.
ResourceClauses(e, facultyId, batchId, classroomId) ==
    \/ e.facultyId = facultyId
    \/ e.batchId = batchId
    \/ e.classroomId = classroomId

\* The where clause as evaluated: the last [Op.or] property wins.
WhereClause(e, timetableId, day, startTime, endTime, facultyId, batchId, classroomId, excludeEntryId) ==
    /\ e.timetableId = timetableId
    /\ e.day = day
    /\ ResourceClauses(e, facultyId, batchId, classroomId)
    /\ excludeEntryId # NoEntry => e # excludeEntryId

checkTimetableConflicts(timetableId, day, startTime, endTime, facultyId, batchId, classroomId, excludeEntryId) ==
    {e \in entries : WhereClause(e, timetableId, day, startTime, endTime,
                                 facultyId, batchId, classroomId, excludeEntryId)}

(***************************************************************************)
(* The route handlers.  Each handler is a function of the stored state and *)
(* the request: it yields the response (status code and the fields of the  *)
(* JSON body) together with the state it leaves behind.                    *)
(***************************************************************************)
Outcome(resp, st, rows, result) ==
    [response |-> resp, status |-> st, entries |-> rows, timetableEntries |-> result]

\* An early return (or a rolled back transaction): nothing is written.
Fail(code, message) ==
    Outcome([code |-> code, message |-> message], status, entries, timetableEntries)

\* Generate without the TimetableEntry.destroy of the stored rows.
PostGenerateKeepingRows ==
    IF status = "approved" \/ status = "published"
    THEN Fail(400, "Cannot generate approved or published timetable")
    ELSE IF Len(batches) = 0 \/ Len(subjects) = 0 \/ Len(faculty) = 0
            \/ Len(classrooms) = 0
    THEN Fail(400, "No active rows found")
    ELSE LET run == generateTimetableEntries(batches, subjects, faculty,
                                             classrooms, facultySubjects)
         IN IF run.threw
            THEN Fail(500, "Server error while generating timetable")
            ELSE Outcome([code |-> 200,
                          message |-> "Timetable generated successfully",
                          entriesCount |-> Len(run.entries)],
                         "pending_approval", entries \cup BulkCreate(run.entries),
                         run.entries)

\* POST /:id/generate
PostGenerate ==
    IF status = "approved" \/ status = "published"
    THEN Fail(400, "Cannot generate approved or published timetable")
    ELSE IF Len(batches) = 0
    THEN Fail(400, "No active batches found for this department and semester")
    ELSE IF Len(subjects) = 0
    THEN Fail(400, "No active subjects found for this department and semester")
    ELSE IF Len(faculty) = 0
    THEN Fail(400, "No active faculty found for this department")
    ELSE IF Len(classrooms) = 0
    THEN Fail(400, "No active classrooms found")
    ELSE LET run == generateTimetableEntries(batches, subjects, faculty,
                                             classrooms, facultySubjects)
         IN IF run.threw
            THEN \* the catch block rolls the transaction back
                 Fail(500, "Server error while generating timetable")
            ELSE Outcome([code |-> 200,
                          message |-> "Timetable generated successfully",
                          entriesCount |-> Len(run.entries)],
                         "pending_approval", BulkCreate(run.entries), run.entries)

\* Approve without the check of the current status.
PostApproveUnguarded ==
    Outcome([code |-> 200, message |-> "Timetable approved successfully"],
            "approved", entries, timetableEntries)

\* POST /:id/approve
PostApprove ==
    IF status # "pending_approval"
    THEN Fail(400, "Only timetables in pending_approval status can be approved")
    ELSE Outcome([code |-> 200, message |-> "Timetable approved successfully"],
                 "approved", entries, timetableEntries)

\* POST /:id/publish
PostPublish ==
    IF status # "approved"
    THEN Fail(400, "Only approved timetables can be published")
    ELSE Outcome([code |-> 200, message |-> "Timetable published successfully"],
                 "published", entries, timetableEntries)

\* POST /:id/entries
PostEntry(body) ==
    IF status = "published"
    THEN Fail(400, "Cannot add entries to published timetable")
    ELSE IF \/ body.day = "" \/ body.startTime = 0 \/ body.endTime = 0
            \/ body.subjectId = 0 \/ body.facultyId = 0 \/ body.batchId = 0
            \/ body.classroomId = 0
    THEN Fail(400, "Please provide day, startTime, endTime, subjectId, facultyId, batchId, and classroomId")
    ELSE LET conflicts == checkTimetableConflicts(TimetableId, body.day,
                              body.startTime, body.endTime, body.facultyId,
                              body.batchId, body.classroomId, NoEntry)
             entry == Row([timetableId |-> TimetableId, day |-> body.day,
              startTime |-> body.startTime, endTime |-> body.endTime,
              subjectId |-> body.subjectId, facultyId |-> body.facultyId,
              batchId |-> body.batchId, classroomId |-> body.classroomId,
              type |-> OrStr(body.type, "lecture")])
         IN IF Cardinality(conflicts) > 0
            THEN Outcome([code |-> 400,
                          message |-> "Timetable entry conflicts with existing entries",
                          conflicts |-> conflicts],
                         status, entries, timetableEntries)
            ELSE Outcome([code |-> 201,
                          message |-> "Timetable entry added successfully",
                          entry |-> entry],
                         status, entries \cup {entry}, timetableEntries)

\* PUT /:id/entries/:entryId
PutEntry(entryId, body) ==
    IF status = "published"
    THEN Fail(400, "Cannot update entries in published timetable")
    ELSE IF ~\E e \in entries : e = entryId /\ e.timetableId = TimetableId
    THEN Fail(404, "Timetable entry not found")
    ELSE LET entry == CHOOSE e \in entries :
                         e = entryId /\ e.timetableId = TimetableId
             checked == \/ body.day # "" \/ body.startTime # 0 \/ body.endTime # 0
                        \/ body.facultyId # 0 \/ body.batchId # 0
                        \/ body.classroomId # 0
             conflicts == IF checked
                          THEN checkTimetableConflicts(TimetableId,
                                   OrStr(body.day, entry.day),
                                   OrNum(body.startTime, entry.startTime),
                                   OrNum(body.endTime, entry.endTime),
                                   OrNum(body.facultyId, entry.facultyId),
                                   OrNum(body.batchId, entry.batchId),
                                   OrNum(body.classroomId, entry.classroomId),
                                   entry)
                          ELSE {}
             updated == [entry EXCEPT
                           !.day = OrStr(body.day, entry.day),
                           !.startTime = OrNum(body.startTime, entry.startTime),
                           !.endTime = OrNum(body.endTime, entry.endTime),
                           !.subjectId = OrNum(body.subjectId, entry.subjectId),
                           !.facultyId = OrNum(body.facultyId, entry.facultyId),
                           !.batchId = OrNum(body.batchId, entry.batchId),
                           !.classroomId = OrNum(body.classroomId, entry.classroomId),
                           !.type = OrStr(body.type, entry.type)]
         IN IF Cardinality(conflicts) > 0
            THEN Outcome([code |-> 400,
                          message |-> "Timetable entry conflicts with existing entries",
                          conflicts |-> conflicts],
                         status, entries, timetableEntries)
            ELSE Outcome([code |-> 200,
                          message |-> "Timetable entry updated successfully",
                          entry |-> updated],
                         status, (entries \ {entry}) \cup {updated}, timetableEntries)

\* Delete without the check for a published timetable.
DelEntryUnguarded(entryId) ==
    IF ~\E e \in entries : e = entryId /\ e.timetableId = TimetableId
    THEN Fail(404, "Timetable entry not found")
    ELSE Outcome([code |-> 200, message |-> "Timetable entry deleted successfully"],
                 status, {e \in entries : e # entryId}, timetableEntries)

\* DELETE /:id/entries/:entryId
DelEntry(entryId) ==
    IF status = "published"
    THEN Fail(400, "Cannot delete entries from published timetable")
    ELSE IF ~\E e \in entries : e = entryId /\ e.timetableId = TimetableId
    THEN Fail(404, "Timetable entry not found")
    ELSE Outcome([code |-> 200, message |-> "Timetable entry deleted successfully"],
                 status, {e \in entries : e # entryId}, timetableEntries)

\* The state a handler leaves behind becomes the stored state.
Apply(o) ==
    /\ status' = o.status
    /\ entries' = o.entries
    /\ timetableEntries' = o.timetableEntries
    /\ UNCHANGED <<catalog, leaveVars, txVars>>

GenerateTimetable == Apply(PostGenerate)

ApproveTimetable == Apply(PostApprove)

PublishTimetable == Apply(PostPublish)

\* The table is kept to MaxEntries rows.
AddEntry(body) ==
    /\ Cardinality(PostEntry(body).entries) <= MaxEntries
    /\ Apply(PostEntry(body))

UpdateEntry(entryId, body) == Apply(PutEntry(entryId, body))

DeleteEntry(entryId) == Apply(DelEntry(entryId))

(***************************************************************************)
(* Inputs.                                                                 *)
(***************************************************************************)
BatchRows(strengths) ==
    [i \in DOMAIN strengths |-> [id |-> i, strength |-> strengths[i]]]

\* <<lecture, tutorial, practical>> hours per week.
SubjectRows(hours) ==
    [i \in DOMAIN hours |-> [id |-> i, lectureHoursPerWeek |-> hours[i][1],
                             tutorialHoursPerWeek |-> hours[i][2],
                             practicalHoursPerWeek |-> hours[i][3]]]

ClassroomRows(rooms) ==
    [i \in DOMAIN rooms |-> [id |-> i, capacity |-> rooms[i][1], isLab |-> rooms[i][2]]]

FacultyRows(ids) == [i \in DOMAIN ids |-> [id |-> ids[i]]]

\* The eligibility rows of a preference table (0: no active row), in the
\* order faculty 1, faculty 2 within subject 1, subject 2, ...
PairSeq(n) == [k \in 1..(2 * n) |-> <<((k - 1) % 2) + 1, ((k - 1) \div 2) + 1>>]

EligibilityRows(pref, n) ==
    LET present == SelectSeq(PairSeq(n), LAMBDA p : pref[p] # 0)
    IN [k \in DOMAIN present |->
          [facultyId |-> present[k][1], subjectId |-> present[k][2],
           preference |-> pref[present[k]]]]

HourProfiles == {h \in (0..MaxHours) \X (0..MaxHours) \X (0..MaxHours) :
                    h[1] + h[2] + h[3] <= MaxHours}

\* One subject, or two with a fixed second one.
SubjectCatalogs ==
    {<<h>> : h \in HourProfiles} \cup {<<h, <<1, 0, 1>>>> : h \in HourProfiles}

BatchCatalogs == {<<60>>, <<30, 30>>, <<30, 60>>, <<60, 60>>}

\* Preference of each faculty for each subject; 0: no active row.
PreferenceTables(n) ==
    {pref \in [FacultyIds \X (1..n) -> Preferences \cup {0}] :
        n > 1 => pref[<<1, 2>>] = 9 /\ pref[<<2, 2>>] # 9}

ClassroomCatalogs ==
    { <<<<70, FALSE>>, <<40, TRUE>>>>,
      <<<<40, TRUE>>, <<40, FALSE>>, <<70, FALSE>>>>,
      <<<<70, TRUE>>, <<70, TRUE>>, <<30, FALSE>>>> }

FacultyCatalogs == {<<1, 2>>, <<1>>}

(***************************************************************************)
(* GenSpec: one generation run on every input of the bounded catalogs.     *)
(***************************************************************************)
Untouched ==
    /\ status = "draft"
    /\ entries = {}
    /\ timetableEntries = <<>>

\* No leave has been requested and no request is being served.
Quiet ==
    /\ timetable = [startDate |-> 2, endDate |-> 12, isActive |-> TRUE]
    /\ users = <<>>
    /\ FacultySubjects = <<>>
    /\ leaveRequests = {}
    /\ substitutions = {}
    /\ pc = <<>>
    /\ tx = <<>>

GenInit ==
    /\ batches \in {BatchRows(s) : s \in BatchCatalogs}
    /\ subjects \in {SubjectRows(h) : h \in SubjectCatalogs}
    /\ classrooms \in {ClassroomRows(r) : r \in ClassroomCatalogs}
    /\ faculty \in {FacultyRows(f) : f \in FacultyCatalogs}
    /\ facultySubjects \in
         {EligibilityRows(pref, Len(subjects)) :
            pref \in PreferenceTables(Len(subjects))}
    /\ Untouched
    /\ Quiet

GenNext == GenerateTimetable

GenSpec == GenInit /\ [][GenNext]_vars

(***************************************************************************)
(* Spec: the life of one timetable under any sequence of requests.         *)
(***************************************************************************)
NoBody == [day |-> "", startTime |-> 0, endTime |-> 0, subjectId |-> 0,
           facultyId |-> 0, batchId |-> 0, classroomId |-> 0, type |-> ""]

ReqDays == {"Monday", "Tuesday"}
ReqIntervals == {<<9, 10>>, <<10, 11>>}

Ids(rows) == {r.id : r \in Range(rows)}

\* Bodies of POST /:id/entries: complete ones without a type, and one that
\* lacks a required field.
AddBodies ==
    {[day |-> d, startTime |-> t[1], endTime |-> t[2], subjectId |-> s,
      facultyId |-> f, batchId |-> b, classroomId |-> c, type |-> ""] :
        d \in ReqDays, t \in ReqIntervals, s \in Ids(subjects),
        f \in FacultyIds, b \in Ids(batches), c \in Ids(classrooms)}
        \cup {[NoBody EXCEPT !.day = "Monday", !.startTime = 9, !.endTime = 10]}

\* Bodies of PUT /:id/entries/:entryId: at most one field present.
UpdateBodies ==
    {NoBody}
        \cup {[NoBody EXCEPT !.day = d] : d \in ReqDays}
        \cup {[NoBody EXCEPT !.endTime = 11], [NoBody EXCEPT !.subjectId = 1]}
        \cup {[NoBody EXCEPT !.facultyId = f] : f \in FacultyIds}
        \cup {[NoBody EXCEPT !.batchId = b] : b \in Ids(batches)}
        \cup {[NoBody EXCEPT !.classroomId = c] : c \in Ids(classrooms)}

\* Entry ids a request can name: the stored rows and one that is not stored.
EntryIds == entries \cup {NoEntry}

Init ==
    /\ batches = BatchRows(<<60, 30>>)
    /\ subjects \in {SubjectRows(<<h>>) : h \in {<<1, 0, 0>>, <<0, 0, 1>>}}
    /\ classrooms = ClassroomRows(<<<<70, FALSE>>, <<40, TRUE>>>>)
    /\ faculty = FacultyRows(<<1, 2>>)
    /\ facultySubjects =
         EligibilityRows([p \in FacultyIds \X {1} |-> IF p[1] = 1 THEN 9 ELSE 4], 1)
    /\ Untouched
    /\ Quiet

Next ==
    \/ GenerateTimetable
    \/ ApproveTimetable
    \/ PublishTimetable
    \/ \E body \in AddBodies : AddEntry(body)
    \/ \E entryId \in EntryIds, body \in UpdateBodies : UpdateEntry(entryId, body)
    \/ \E entryId \in EntryIds : DeleteEntry(entryId)

Spec == Init /\ [][Next]_vars

(***************************************************************************)
(* Properties.                                                             *)
(***************************************************************************)
\* Half-open intervals [s1, e1) and [s2, e2) overlap.
Overlap(s1, e1, s2, e2) == s1 < e2 /\ e1 > s2

SharesResource(a, b) ==
    \/ a.facultyId = b.facultyId
    \/ a.batchId = b.batchId
    \/ a.classroomId = b.classroomId

DoubleBooked(a, b) ==
    /\ a.day = b.day
    /\ SharesResource(a, b)
    /\ Overlap(a.startTime, a.endTime, b.startTime, b.endTime)

ClassroomOf(id) == CHOOSE c \in Range(classrooms) : c.id = id
BatchOf(id) == CHOOSE b \in Range(batches) : b.id = id

StateErrors ==
    {"Cannot generate approved or published timetable",
     "Cannot add entries to published timetable",
     "Cannot update entries in published timetable",
     "Cannot delete entries from published timetable"}

IsStateError(o) == o.response.code = 400 /\ o.response.message \in StateErrors

ReportsConflict(o) == o.response.code = 400 /\ "conflicts" \in DOMAIN o.response

Complete(body) ==
    /\ body.day # "" /\ body.startTime # 0 /\ body.endTime # 0
    /\ body.subjectId # 0 /\ body.facultyId # 0 /\ body.batchId # 0
    /\ body.classroomId # 0

\* C1: any two entries produced by one run of generateTimetableEntries that
\* have the same day and share the faculty, the batch or the classroom have
\* non-overlapping half-open time intervals.
C1_GeneratedNoDoubleBooking ==
    \A i, j \in DOMAIN timetableEntries :
        i # j => ~DoubleBooked(timetableEntries[i], timetableEntries[j])

\* A run produced two entries on one day that share a resource.
C1_Witness ==
    \E i, j \in DOMAIN timetableEntries :
        /\ i # j
        /\ timetableEntries[i].day = timetableEntries[j].day
        /\ SharesResource(timetableEntries[i], timetableEntries[j])

\* C2: a published timetable holds no two entries that share a day, overlap
\* in time and share the faculty, the batch or the classroom, whatever
\* sequence of generate, add, update, delete, approve and publish requests
\* led to it.
C2_PublishedNoDoubleBooking ==
    status = "published" =>
        \A a, b \in entries : a # b => ~DoubleBooked(a, b)

\* A published timetable that holds a generated entry and a manually added
\* one, and two entries on one day that share a resource.
C2_Witness ==
    /\ status = "published"
    /\ \E a \in entries : a \in BulkCreate(timetableEntries)
    /\ \E a \in entries : a \notin BulkCreate(timetableEntries)
    /\ \E a, b \in entries : a # b /\ a.day = b.day /\ SharesResource(a, b)

\* The candidate row of an update request.
Merged(entry, body) ==
    [day |-> OrStr(body.day, entry.day),
     startTime |-> OrNum(body.startTime, entry.startTime),
     endTime |-> OrNum(body.endTime, entry.endTime),
     facultyId |-> OrNum(body.facultyId, entry.facultyId),
     batchId |-> OrNum(body.batchId, entry.batchId),
     classroomId |-> OrNum(body.classroomId, entry.classroomId)]

\* C3: a manual add or update reports a conflict if and only if some other
\* entry of the timetable on the candidate's day shares its faculty, batch or
\* classroom and overlaps it in time (candidate.start < existing.end and
\* candidate.end > existing.start); a candidate that only touches an entry
\* of the same faculty is accepted.
C3_ConflictIffOverlap ==
    status # "published" =>
        /\ \A body \in AddBodies :
              Complete(body) =>
                 (ReportsConflict(PostEntry(body))
                     <=> \E e \in entries : DoubleBooked(body, e))
        /\ \A entry \in entries, body \in UpdateBodies :
              ReportsConflict(PutEntry(entry, body))
                  <=> \E e \in entries \ {entry} :
                         DoubleBooked(Merged(entry, body), e)

\* The colliding entries of an add request: those in the same classroom on
\* the same day whose interval overlaps the requested one.
Occupying(body) ==
    {e \in entries :
        /\ e.day = body.day
        /\ e.classroomId = body.classroomId
        /\ Overlap(body.startTime, body.endTime, e.startTime, e.endTime)}

C5_StatusAdvances ==
    [][status' # status =>
          \/ status = "draft" /\ status' = "pending_approval" /\ GenerateTimetable
          \/ status = "pending_approval" /\ status' = "approved" /\ ApproveTimetable
          \/ status = "approved" /\ status' = "published" /\ PublishTimetable]_vars

\* The timetable went through every status.
C5_Witness == status = "published" /\ entries # {}

\* C6: once the timetable is published its entries never change: generate
\* and every add, update and delete request are rejected as state errors
\* and leave every row as it was.
C6_PublishedFrozen ==
    status = "published" =>
        /\ IsStateError(PostGenerate) /\ PostGenerate.entries = entries
        /\ \A body \in AddBodies :
              IsStateError(PostEntry(body)) /\ PostEntry(body).entries = entries
        /\ \A entryId \in EntryIds, body \in UpdateBodies :
              /\ IsStateError(PutEntry(entryId, body))
              /\ PutEntry(entryId, body).entries = entries
        /\ \A entryId \in EntryIds :
              IsStateError(DelEntry(entryId)) /\ DelEntry(entryId).entries = entries
        /\ PostApprove.entries = entries /\ PostPublish.entries = entries

\* A published timetable with entries, one of them added by hand.
C6_Witness ==
    /\ status = "published"
    /\ \E a \in entries : a \notin BulkCreate(timetableEntries)

\* C7: every practical entry produced by generateTimetableEntries is in a
\* classroom with isLab = true.
C7_PracticalInLab ==
    \A i \in DOMAIN timetableEntries :
        timetableEntries[i].type = "practical" =>
            ClassroomOf(timetableEntries[i].classroomId).isLab

\* A run placed a practical although a room that is no lab was in the
\* catalog.
C7_Witness ==
    /\ \E i \in DOMAIN timetableEntries : timetableEntries[i].type = "practical"
    /\ \E c \in Range(classrooms) : ~c.isLab

\* C8: every stored entry, generated or added or updated by hand, has
\* classroom.capacity >= batch.strength.
C8_CapacityCoversStrength ==
    \A e \in entries :
        ClassroomOf(e.classroomId).capacity >= BatchOf(e.batchId).strength

\* Sessions that the subjects demand for the batches of the run.
RECURSIVE SumHours(_)
SumHours(sub) ==
    IF sub = <<>> THEN 0
    ELSE Head(sub).lectureHoursPerWeek + Head(sub).tutorialHoursPerWeek
            + Head(sub).practicalHoursPerWeek + SumHours(Tail(sub))

TotalRequired == Len(batches) * SumHours(subjects)

\* C9: a successful generate reports the number of entries created and the
\* number of unassigned requirement units, and the two add up to the total
\* number of required sessions.
C9_ReportsUnassigned ==
    LET r == PostGenerate.response
    IN r.code = 200 =>
          /\ "entriesCount" \in DOMAIN r
          /\ "unassignedCount" \in DOMAIN r
          /\ r.entriesCount + r.unassignedCount = TotalRequired

(***************************************************************************)
(* Leave requests and substitutions.                                       *)
(*                                                                         *)
(* A request is made by a user whose Faculty row is `f`, or by an admin    *)
(* (approve, reject, assign; an admin names the faculty in the body).  The *)
(* extra department check made for a head of department only adds 403      *)
(* answers and is left to the admin case.                                  *)
(***************************************************************************)
daysOfWeek == <<"Sunday", "Monday", "Tuesday", "Wednesday", "Thursday",
                "Friday", "Saturday">>

\* Date.prototype.getDay
getDay(date) == date % 7

\* The day on which the requests arrive: `new Date()` lies after its midnight.
Today == 1

\* The values the ENUM columns accept; a write of any other value is
\* refused by the database and the statement throws.
LeaveRequestStatus == {"pending", "approved", "rejected"}

SubstitutionStatus == {"pending", "accepted", "rejected"}

getDaysOfWeekBetweenDates(startDate, endDate) ==
    {daysOfWeek[getDay(d) + 1] : d \in startDate..endDate}

getDatesByDayOfWeek(dayOfWeek, startDate, endDate) ==
    IF dayOfWeek \notin Range(daysOfWeek) THEN <<>>
    ELSE SelectSeq([i \in 1..(endDate - startDate + 1) |-> startDate + i - 1],
                   LAMBDA d : daysOfWeek[getDay(d) + 1] = dayOfWeek)

\* Every order of the rows at positions S of the table that ORDER BY
\* "preference" DESC allows: SQL leaves the order of equal keys open.
OrderByPreferenceDesc(S) ==
    LET n == Cardinality(S)
    IN {o \in [1..n -> S] :
          /\ \A i, j \in 1..n : i # j => o[i] # o[j]
          /\ \A i, j \in 1..n :
               i < j => FacultySubjects[o[i]].preference
                            >= FacultySubjects[o[j]].preference}

\* The rows of a query answer: facultyId and preference (name and email
\* only feed the e-mails).
Answer(o) ==
    [i \in DOMAIN o |-> [facultyId |-> FacultySubjects[o[i]].facultyId,
                         preference |-> FacultySubjects[o[i]].preference]]

\* potentialSubstitutes without the clause "Faculty"."id" != :facultyId.
potentialSubstitutesAnyFaculty(department, subjectId, facultyId) ==
    {Answer(o) : o \in OrderByPreferenceDesc(
        {i \in DOMAIN FacultySubjects :
            /\ FacultySubjects[i].facultyId \in DOMAIN users
            /\ users[FacultySubjects[i].facultyId] = department
            /\ FacultySubjects[i].subjectId = subjectId
            /\ FacultySubjects[i].isActive})}

\* The answers the query of POST / (leave request) can give.
potentialSubstitutes(department, subjectId, facultyId) ==
    {Answer(o) : o \in OrderByPreferenceDesc(
        {i \in DOMAIN FacultySubjects :
            /\ FacultySubjects[i].facultyId \in DOMAIN users
            /\ users[FacultySubjects[i].facultyId] = department
            /\ FacultySubjects[i].subjectId = subjectId
            /\ FacultySubjects[i].isActive
            /\ FacultySubjects[i].facultyId # facultyId})}

\* The answers the query of PUT /:id/decline can give (LIMIT 1).
nextSubstitutes(department, subjectId, originalFacultyId, currentFacultyId) ==
    {IF o = <<>> THEN <<>> ELSE <<Answer(o)[1]>> : o \in OrderByPreferenceDesc(
        {i \in DOMAIN FacultySubjects :
            /\ FacultySubjects[i].facultyId \in DOMAIN users
            /\ users[FacultySubjects[i].facultyId] = department
            /\ FacultySubjects[i].subjectId = subjectId
            /\ FacultySubjects[i].isActive
            /\ FacultySubjects[i].facultyId # originalFacultyId
            /\ FacultySubjects[i].facultyId # currentFacultyId})}

\* What a handler leaves behind in the two tables, with its response.
LeaveOutcome(resp, leaves, subs) ==
    [response |-> resp, leaveRequests |-> leaves, substitutions |-> subs]

LeaveFail(code, message) ==
    LeaveOutcome([code |-> code, message |-> message], leaveRequests, substitutions)

\* The overlap check finding no row.
overlappingLeavesNone(facultyId, startDate, endDate) == {}

overlappingLeaves(facultyId, startDate, endDate) ==
    {l \in leaveRequests :
        /\ l.facultyId = facultyId
        /\ l.status # "rejected"
        /\ \/ l.startDate >= startDate /\ l.startDate <= endDate
           \/ l.endDate >= startDate /\ l.endDate <= endDate
           \/ l.startDate <= startDate /\ l.endDate >= endDate}

affectedEntries(facultyId, startDate, endDate) ==
    {e \in entries :
        /\ timetable.startDate <= endDate
        /\ timetable.endDate >= startDate
        /\ status = "published"
        /\ timetable.isActive
        /\ e.facultyId = facultyId
        /\ e.day \in getDaysOfWeekBetweenDates(startDate, endDate)}

\* The rows of a set in the order a findAll hands them out.
RECURSIVE Listed(_)
Listed(S) ==
    IF S = {} THEN <<>>
    ELSE LET x == CHOOSE x \in S : TRUE IN <<x>> \o Listed(S \ {x})

\* The subjects of the affected entries, in the order of entriesBySubject.
RECURSIVE SubjectsOf(_, _)
SubjectsOf(list, seen) ==
    IF list = <<>> THEN <<>>
    ELSE IF Head(list).subjectId \in seen THEN SubjectsOf(Tail(list), seen)
    ELSE <<Head(list).subjectId>>
            \o SubjectsOf(Tail(list), seen \cup {Head(list).subjectId})

\* The (entry, date, substitute) of every Substitution.create of the
\* request, in the order of the three nested loops.
RECURSIVE DatesLoop(_, _, _)
DatesLoop(entry, dates, substituteFacultyId) ==
    IF dates = <<>> THEN <<>>
    ELSE <<[entry |-> entry, date |-> Head(dates),
            substituteFacultyId |-> substituteFacultyId]>>
            \o DatesLoop(entry, Tail(dates), substituteFacultyId)

RECURSIVE EntriesLoop(_, _, _, _)
EntriesLoop(list, startDate, endDate, substituteFacultyId) ==
    IF list = <<>> THEN <<>>
    ELSE DatesLoop(Head(list), getDatesByDayOfWeek(Head(list).day, startDate, endDate),
                   substituteFacultyId)
            \o EntriesLoop(Tail(list), startDate, endDate, substituteFacultyId)

RECURSIVE SubjectsLoop(_, _, _, _, _)
SubjectsLoop(subjectIds, list, startDate, endDate, answer) ==
    IF subjectIds = <<>> THEN <<>>
    ELSE LET subjectId == Head(subjectIds)
             found == answer[subjectId]
         IN EntriesLoop(SelectSeq(list, LAMBDA e : e.subjectId = subjectId),
                        startDate, endDate,
                        IF Len(found) > 0 THEN found[1].facultyId ELSE 0)
               \o SubjectsLoop(Tail(subjectIds), list, startDate, endDate, answer)

\* Substitution.create: the row of the k-th create of leave request `id`.
NewSubstitution(id, k, facultyId, c) ==
    [id |-> <<id, k>>, timetableEntryId |-> c.entry,
     originalFacultyId |-> facultyId,
     substituteFacultyId |-> c.substituteFacultyId, date |-> c.date,
     leaveRequestId |-> id, status |-> "pending"]

\* The answers the database can give to the queries of one request: one
\* list of candidates for each subject.
SubjectIds == {s.id : s \in Range(subjects)}

Answers(facultyId) ==
    IF facultyId \notin DOMAIN users THEN {[s \in SubjectIds |-> <<>>]}
    ELSE {a \in [SubjectIds -> UNION {potentialSubstitutes(users[facultyId], s, facultyId) :
                                         s \in SubjectIds}] :
            \A s \in SubjectIds : a[s] \in potentialSubstitutes(users[facultyId], s, facultyId)}

\* POST /api/leaves by (or, from an admin, for) faculty `facultyId`; 0: an
\* admin who names no faculty.  `answer` is what the candidate queries give.
PostLeave(facultyId, startDate, endDate, answer) ==
    IF startDate = 0 \/ endDate = 0
    THEN LeaveFail(400, "Please provide startDate, endDate, and reason")
    ELSE IF startDate > endDate
    THEN LeaveFail(400, "Start date must be before end date")
    ELSE IF startDate <= Today
    THEN LeaveFail(400, "Cannot create leave request for past dates")
    ELSE IF facultyId = 0
    THEN LeaveFail(400, "Faculty ID is required for admin users")
    ELSE IF facultyId \notin DOMAIN users
    THEN LeaveFail(404, "Faculty not found")
    ELSE IF overlappingLeaves(facultyId, startDate, endDate) # {}
    THEN LeaveFail(400, "Overlapping leave request already exists for this period")
    ELSE LET id == Cardinality(leaveRequests) + 1
             leaveRequest == [id |-> id, facultyId |-> facultyId,
                              startDate |-> startDate, endDate |-> endDate,
                              status |-> "pending"]
             list == Listed(affectedEntries(facultyId, startDate, endDate))
             creates == SubjectsLoop(SubjectsOf(list, {}), list,
                                     startDate, endDate, answer)
         IN IF \E k \in DOMAIN creates : creates[k].substituteFacultyId = 0
            THEN \* substituteFacultyId is allowNull: false: the create throws
                 \* and the catch block rolls the leave request back with it
                 LeaveFail(500, "Server error while creating leave request")
            ELSE LeaveOutcome(
                   [code |-> 201, message |-> "Leave request created successfully",
                    leaveRequest |-> leaveRequest,
                    affectedEntriesCount |-> Len(list)],
                   leaveRequests \cup {leaveRequest},
                   substitutions \cup
                     {NewSubstitution(id, k, facultyId, creates[k]) :
                        k \in DOMAIN creates})

LeaveById(id) == {l \in leaveRequests : l.id = id}

\* leaveRequest.update({status}) of the one row with this id.
WithLeaveStatus(id, st) ==
    {IF l.id = id THEN [l EXCEPT !.status = st] ELSE l : l \in leaveRequests}

\* The approve handler without the check of the current status.
PutLeaveApproveUnguarded(id) ==
    IF LeaveById(id) = {}
    THEN LeaveFail(404, "Leave request not found")
    ELSE LeaveOutcome(
           [code |-> 200, message |-> "Leave request approved successfully"],
           WithLeaveStatus(id, "approved"),
           {IF s.leaveRequestId = id THEN [s EXCEPT !.status = "pending"] ELSE s :
              s \in substitutions})

\* PUT /api/leaves/:id/approve
PutLeaveApprove(id) ==
    IF LeaveById(id) = {}
    THEN LeaveFail(404, "Leave request not found")
    ELSE IF (CHOOSE l \in LeaveById(id) : TRUE).status # "pending"
    THEN LeaveFail(400, "Only pending leave requests can be approved")
    ELSE IF "approved" \notin LeaveRequestStatus \/ "pending" \notin SubstitutionStatus
    THEN LeaveFail(500, "Server error while approving leave request")
    ELSE LeaveOutcome(
           [code |-> 200, message |-> "Leave request approved successfully"],
           WithLeaveStatus(id, "approved"),
           {IF s.leaveRequestId = id THEN [s EXCEPT !.status = "pending"] ELSE s :
              s \in substitutions})

\* The reject handler without its Substitution.destroy.
PutLeaveRejectOnly(id, rejectionReason) ==
    IF rejectionReason = ""
    THEN LeaveFail(400, "Rejection reason is required")
    ELSE IF LeaveById(id) = {}
    THEN LeaveFail(404, "Leave request not found")
    ELSE IF (CHOOSE l \in LeaveById(id) : TRUE).status # "pending"
    THEN LeaveFail(400, "Only pending leave requests can be rejected")
    ELSE LeaveOutcome(
           [code |-> 200, message |-> "Leave request rejected successfully"],
           WithLeaveStatus(id, "rejected"),
           substitutions)

\* PUT /api/leaves/:id/reject
PutLeaveReject(id, rejectionReason) ==
    IF rejectionReason = ""
    THEN LeaveFail(400, "Rejection reason is required")
    ELSE IF LeaveById(id) = {}
    THEN LeaveFail(404, "Leave request not found")
    ELSE IF (CHOOSE l \in LeaveById(id) : TRUE).status # "pending"
    THEN LeaveFail(400, "Only pending leave requests can be rejected")
    ELSE IF "rejected" \notin LeaveRequestStatus
    THEN LeaveFail(500, "Server error while rejecting leave request")
    ELSE LeaveOutcome(
           [code |-> 200, message |-> "Leave request rejected successfully"],
           WithLeaveStatus(id, "rejected"),
           {s \in substitutions : s.leaveRequestId # id})

\* PUT /api/leaves/:id/cancel
PutLeaveCancel(id) ==
    IF LeaveById(id) = {}
    THEN LeaveFail(404, "Leave request not found")
    ELSE IF (CHOOSE l \in LeaveById(id) : TRUE).status \in {"completed", "rejected"}
    THEN LeaveFail(400, "Cannot cancel completed or rejected leave requests")
    ELSE IF "cancelled" \notin LeaveRequestStatus
    THEN LeaveFail(500, "Server error while cancelling leave request")
    ELSE LeaveOutcome(
           [code |-> 200, message |-> "Leave request cancelled successfully"],
           WithLeaveStatus(id, "cancelled"),
           {s \in substitutions : s.leaveRequestId # id})

\* The time clauses of the conflict query without the fourth one.
conflictTimeClausesThree(e, startTime, endTime) ==
    \/ e.startTime < endTime /\ e.startTime >= startTime
    \/ e.endTime <= endTime /\ e.endTime > startTime
    \/ e.startTime >= startTime /\ e.endTime <= endTime

\* The [Op.or] of the conflict query of accept and assign: the stored entry
\* `e` against the session of the substitution.
conflictTimeClauses(e, startTime, endTime) ==
    \/ e.startTime < endTime /\ e.startTime >= startTime
    \/ e.endTime <= endTime /\ e.endTime > startTime
    \/ e.startTime >= startTime /\ e.endTime <= endTime
    \/ e.startTime <= startTime /\ e.endTime >= endTime

\* The conflict query of accept and assign when the day filter matches no
\* row (a weekday number never equals a day name).
conflictsNoneFound(substitution, facultyId) == [threw |-> FALSE, rows |-> {}]

\* The conflict query of accept and assign.  Its where clause is built from
\* substitution.date.toISOString(); `date` is a DATEONLY column, which the
\* ORM hands back as the string 'YYYY-MM-DD', and a string has no
\* toISOString: the expression throws a TypeError before the query is sent.
conflicts(substitution, facultyId) == [threw |-> TRUE, rows |-> {}]

\* substitution.update(values) of the one row.
Updated(substitution, values) ==
    (substitutions \ {substitution})
        \cup {[f \in DOMAIN substitution |->
                 IF f \in DOMAIN values THEN values[f] ELSE substitution[f]]}

\* The accept handler without the check of the addressed candidate and
\* without the conflict query.
PutAcceptAnyFaculty(substitution, f) ==
    IF f \notin DOMAIN users
    THEN LeaveFail(404, "Faculty record not found")
    ELSE IF substitution \notin substitutions
    THEN LeaveFail(404, "Substitution not found")
    ELSE IF substitution.status # "pending"
    THEN LeaveFail(400, "Only pending substitution requests can be accepted")
    ELSE LeaveOutcome(
           [code |-> 200,
            message |-> "Substitution request accepted successfully"],
           leaveRequests,
           Updated(substitution,
                   [substituteFacultyId |-> f, status |-> "accepted"]))

\* PUT /api/substitutions/:id/accept by the user whose Faculty row is `f`
\* (0: the user has none).
PutAccept(substitution, f) ==
    IF f \notin DOMAIN users
    THEN LeaveFail(404, "Faculty record not found")
    ELSE IF substitution \notin substitutions
    THEN LeaveFail(404, "Substitution not found")
    ELSE IF substitution.substituteFacultyId # f /\ substitution.substituteFacultyId # 0
    THEN LeaveFail(403, "Access denied. You are not the requested substitute for this class")
    ELSE IF substitution.status # "pending"
    THEN LeaveFail(400, "Only pending substitution requests can be accepted")
    ELSE LET found == conflicts(substitution, f)
         IN IF found.threw
            THEN LeaveFail(500, "Server error while accepting substitution")
            ELSE IF found.rows # {}
            THEN LeaveOutcome(
                   [code |-> 400,
                    message |-> "You have a scheduling conflict with this substitution",
                    conflicts |-> found.rows],
                   leaveRequests, substitutions)
            ELSE IF "accepted" \notin SubstitutionStatus
            THEN LeaveFail(500, "Server error while accepting substitution")
            ELSE LeaveOutcome(
                   [code |-> 200,
                    message |-> "Substitution request accepted successfully"],
                   leaveRequests,
                   Updated(substitution,
                           [substituteFacultyId |-> f, status |-> "accepted"]))

\* PUT /api/substitutions/:id/decline by the user whose Faculty row is `f`;
\* `answer` is what the query for another substitute gives.
PutDecline(substitution, f, answer) ==
    IF f \notin DOMAIN users
    THEN LeaveFail(404, "Faculty record not found")
    ELSE IF substitution \notin substitutions
    THEN LeaveFail(404, "Substitution not found")
    ELSE IF substitution.substituteFacultyId # f
    THEN LeaveFail(403, "Access denied. You are not the requested substitute for this class")
    ELSE IF substitution.status # "pending"
    THEN LeaveFail(400, "Only pending substitution requests can be declined")
    ELSE IF "declined" \notin SubstitutionStatus
    THEN \* the first update writes a status the ENUM does not have
         LeaveFail(500, "Server error while declining substitution")
    ELSE LeaveOutcome(
           [code |-> 200, message |-> "Substitution request declined successfully"],
           leaveRequests,
           IF Len(answer) > 0
           THEN Updated(substitution,
                        [substituteFacultyId |-> answer[1].facultyId,
                         status |-> "pending"])
           ELSE Updated(substitution, [status |-> "declined"]))

\* The assign handler as its checks and its update alone describe it:
\* without the conflict query and with a status column that takes the value.
PutAssignWritten(substitution, facultyId) ==
    IF facultyId = 0
    THEN LeaveFail(400, "Faculty ID is required")
    ELSE IF substitution \notin substitutions
    THEN LeaveFail(404, "Substitution not found")
    ELSE IF facultyId \notin DOMAIN users
    THEN LeaveFail(404, "Faculty not found")
    ELSE LeaveOutcome(
           [code |-> 200,
            message |-> "Faculty assigned to substitution successfully"],
           leaveRequests,
           Updated(substitution,
                   [substituteFacultyId |-> facultyId, status |-> "assigned"]))

\* PUT /api/substitutions/:id/assign by an admin, naming faculty `facultyId`.
PutAssign(substitution, facultyId) ==
    IF facultyId = 0
    THEN LeaveFail(400, "Faculty ID is required")
    ELSE IF substitution \notin substitutions
    THEN LeaveFail(404, "Substitution not found")
    ELSE IF facultyId \notin DOMAIN users
    THEN LeaveFail(404, "Faculty not found")
    ELSE LET found == conflicts(substitution, facultyId)
         IN IF found.threw
            THEN LeaveFail(500, "Server error while assigning substitution")
            ELSE IF found.rows # {}
            THEN LeaveOutcome(
                   [code |-> 400,
                    message |-> "Faculty has a scheduling conflict with this substitution",
                    conflicts |-> found.rows],
                   leaveRequests, substitutions)
            ELSE IF "assigned" \notin SubstitutionStatus
            THEN LeaveFail(500, "Server error while assigning substitution")
            ELSE LeaveOutcome(
                   [code |-> 200,
                    message |-> "Faculty assigned to substitution successfully"],
                   leaveRequests,
                   Updated(substitution,
                           [substituteFacultyId |-> facultyId, status |-> "assigned"]))

\* The answers the database can give to the query of a decline.
DeclineAnswers(substitution, f) ==
    IF substitution.originalFacultyId \notin DOMAIN users THEN {<<>>}
    ELSE nextSubstitutes(users[substitution.originalFacultyId],
                         substitution.timetableEntryId.subjectId,
                         substitution.originalFacultyId, f)

\* The state a leave or substitution handler leaves behind becomes the
\* stored state.
ApplyLeave(o) ==
    /\ leaveRequests' = o.leaveRequests
    /\ substitutions' = o.substitutions
    /\ UNCHANGED <<catalog, status, entries, timetableEntries,
                   timetable, users, FacultySubjects, txVars>>

\* What an email helper hands back when the send is delivered or fails:
\* the helper rethrows.
sendEmailRethrowing(delivered) == [threw |-> ~delivered, sent |-> delivered]

\* What an email helper hands back when the send is delivered or fails:
\* its whole body is inside try/catch, and the catch logs and returns false.
sendEmail(delivered) == [threw |-> FALSE, sent |-> delivered]

\* The outcome `o` of a handler that awaits an email helper before its
\* commit when `sends` holds; an exception there would reach the handler's
\* catch block, which rolls back and answers 500.
Notified(o, sends, delivered) ==
    IF sends /\ sendEmail(delivered).threw
    THEN LeaveFail(500, "Server error")
    ELSE o

\* The handler has reached its email helper: it has answered with success
\* (POST /api/leaves: it has created a substitution with candidates).
Succeeded(o) == o.response.code \in {200, 201}

MailsCandidates(o, answer) ==
    /\ o.substitutions # substitutions
    /\ \E subjectId \in DOMAIN answer : Len(answer[subjectId]) > 0

\* The table is kept to MaxLeaves rows.
CreateLeave(facultyId, startDate, endDate) ==
    \E answer \in Answers(facultyId), delivered \in BOOLEAN :
        LET o == PostLeave(facultyId, startDate, endDate, answer)
        IN /\ Cardinality(o.leaveRequests) <= MaxLeaves
           /\ ApplyLeave(Notified(o, MailsCandidates(o, answer), delivered))

ApproveLeave(id) ==
    \E delivered \in BOOLEAN :
        LET o == PutLeaveApprove(id)
        IN ApplyLeave(Notified(o, Succeeded(o), delivered))

RejectLeave(id, rejectionReason) ==
    \E delivered \in BOOLEAN :
        LET o == PutLeaveReject(id, rejectionReason)
        IN ApplyLeave(Notified(o, Succeeded(o), delivered))

CancelLeave(id) == ApplyLeave(PutLeaveCancel(id))

\* AcceptSubstitution that also puts the accepting faculty on the timetable
\* entry of the substitution.
AcceptSubstitutionRebinding(substitution, f) ==
    \E delivered \in BOOLEAN :
        LET o == PutAccept(substitution, f)
            n == Notified(o, Succeeded(o), delivered)
        IN /\ leaveRequests' = n.leaveRequests
           /\ substitutions' = n.substitutions
           /\ entries' = {IF e = substitution.timetableEntryId /\ f \in DOMAIN users
                          THEN [e EXCEPT !.facultyId = f, !.isSubstitution = TRUE,
                                         !.originalFacultyId = e.facultyId]
                          ELSE e : e \in entries}
           /\ UNCHANGED <<catalog, status, timetableEntries,
                          timetable, users, FacultySubjects, txVars>>

AcceptSubstitution(substitution, f) ==
    \E delivered \in BOOLEAN :
        LET o == PutAccept(substitution, f)
        IN ApplyLeave(Notified(o, Succeeded(o), delivered))

DeclineSubstitution(substitution, f) ==
    \E answer \in DeclineAnswers(substitution, f), delivered \in BOOLEAN :
        LET o == PutDecline(substitution, f, answer)
        IN ApplyLeave(Notified(o, Succeeded(o), delivered))

AssignSubstitution(substitution, facultyId) ==
    \E delivered \in BOOLEAN :
        LET o == PutAssign(substitution, facultyId)
        IN ApplyLeave(Notified(o, Succeeded(o), delivered))

(***************************************************************************)
(* LeaveSpec: leave requests and substitution requests against a generated *)
(* timetable that is approved and may get published.                       *)
(***************************************************************************)
\* The query of POST /:id/generate for the eligibility rows of a department.
facultySubjectsQuery(department) ==
    LET hit == SelectSeq(FacultySubjects,
                         LAMBDA fs : /\ fs.facultyId \in DOMAIN users
                                     /\ users[fs.facultyId] = department
                                     /\ fs.isActive)
    IN [k \in DOMAIN hit |-> [facultyId |-> hit[k].facultyId,
                              subjectId |-> hit[k].subjectId,
                              preference |-> hit[k].preference]]

\* Rows of the table FacultySubjects for subject 1: <<preference, isActive>>
\* of faculty 1, 2 and 3.
FacultySubjectRows(prefs) ==
    [i \in DOMAIN prefs |-> [facultyId |-> i, subjectId |-> 1,
                             preference |-> prefs[i][1], isActive |-> prefs[i][2]]]

\* The tables of the model with the departments of faculty 1, 2 and 3.
EligibilityTables ==
    { <<<<<<9, TRUE>>, <<4, TRUE>>, <<4, TRUE>>>>,   <<"CS", "CS", "CS">>>>,
      <<<<<<9, TRUE>>, <<4, TRUE>>, <<7, TRUE>>>>,   <<"CS", "CS", "IT">>>>,
      <<<<<<9, TRUE>>, <<9, TRUE>>, <<4, TRUE>>>>,   <<"CS", "CS", "CS">>>>,
      <<<<<<9, TRUE>>, <<4, FALSE>>, <<7, FALSE>>>>, <<"CS", "CS", "CS">>>>,
      <<<<<<9, TRUE>>, <<4, TRUE>>, <<4, FALSE>>>>,  <<"CS", "CS", "CS">>>> }

\* Requests: the faculty a request is made by or names (0: none, 4: no
\* such Faculty row), and the date ranges of a leave.
RequestFaculty == 0..4

LeaveFaculty == {0, 1, 2, 4}

LeaveRanges == {<<8, 8>>, <<8, 15>>, <<15, 15>>, <<1, 8>>, <<9, 8>>, <<0, 8>>}

LeaveIds == {l.id : l \in leaveRequests} \cup {0}

NoSubstitution ==
    [id |-> <<0, 0>>, timetableEntryId |-> NoEntry, originalFacultyId |-> 0,
     substituteFacultyId |-> 0, date |-> 0, leaveRequestId |-> 0,
     status |-> "pending"]

SubstitutionIds == substitutions \cup {NoSubstitution}

LeaveInit ==
    /\ batches = BatchRows(<<60, 30>>)
    /\ subjects = SubjectRows(<<<<1, 0, 0>>>>)
    /\ classrooms = ClassroomRows(<<<<70, FALSE>>, <<70, FALSE>>>>)
    /\ \E t \in EligibilityTables :
          /\ FacultySubjects = FacultySubjectRows(t[1])
          /\ users = t[2]
    /\ faculty = FacultyRows(SelectSeq(<<1, 2, 3>>, LAMBDA f : users[f] = "CS"))
    /\ facultySubjects = facultySubjectsQuery("CS")
    /\ timetableEntries =
         generateTimetableEntries(batches, subjects, faculty, classrooms,
                                  facultySubjects).entries
    /\ entries = BulkCreate(timetableEntries)
    /\ status \in {"approved", "published"}
    /\ timetable = [startDate |-> 2, endDate |-> 12, isActive |-> TRUE]
    /\ leaveRequests = {}
    /\ substitutions = {}
    /\ pc = <<>>
    /\ tx = <<>>

LeaveNext ==
    \/ PublishTimetable
    \/ \E facultyId \in LeaveFaculty, r \in LeaveRanges :
          CreateLeave(facultyId, r[1], r[2])
    \/ \E id \in LeaveIds : ApproveLeave(id)
    \/ \E id \in LeaveIds, rejectionReason \in {"", "exams"} :
          RejectLeave(id, rejectionReason)
    \/ \E id \in LeaveIds : CancelLeave(id)
    \/ \E s \in SubstitutionIds, f \in RequestFaculty : AcceptSubstitution(s, f)
    \/ \E s \in SubstitutionIds, f \in RequestFaculty : DeclineSubstitution(s, f)
    \/ \E s \in SubstitutionIds, f \in RequestFaculty : AssignSubstitution(s, f)

LeaveSpec == LeaveInit /\ [][LeaveNext]_vars

(***************************************************************************)
(* POST /:id/generate step by step: the statements of the handler run in   *)
(* one database transaction (READ COMMITTED, the default of the database), *)
(* one client per request.  `entries` and `status` are the committed rows, *)
(* which every other request reads; the writes of a transaction reach them *)
(* at its commit and are dropped at its rollback.  Here a stored row       *)
(* carries the id it was created with.                                     *)
(***************************************************************************)
Clients == {1, 2}

\* A request that is inside its transaction.
Active == {"loaded", "destroying", "destroyed", "created", "updated"}

\* A request that has been answered: 200, 500 or 400.
Finished == {"committed", "rolledback", "rejected"}

NoWrites == [seen |-> {}, deleted |-> {}, inserted |-> {}, status |-> "",
             timetableEntries |-> <<>>]

\* The id column of a stored row (a UUID in the code).
WithId(row, id) == [f \in DOMAIN row \cup {"id"} |-> IF f = "id" THEN id ELSE row[f]]

WithoutId(row) == [f \in DOMAIN row \ {"id"} |-> row[f]]

\* TimetableEntry.bulkCreate by client c.
BulkCreateBy(c, list) == {WithId(Row(list[k]), <<c, k>>) : k \in DOMAIN list}

GoTo(c, step) == pc' = [pc EXCEPT ![c] = step]

\* sequelize.transaction(), Timetable.findByPk and the checks and loads
\* before the first write; a 400 answer returns without closing the
\* transaction, which has written nothing.
BeginGenerate(c) ==
    /\ pc[c] = "idle"
    /\ IF \/ status = "approved" \/ status = "published"
          \/ Len(batches) = 0 \/ Len(subjects) = 0
          \/ Len(faculty) = 0 \/ Len(classrooms) = 0
       THEN GoTo(c, "rejected")
       ELSE GoTo(c, "loaded")
    /\ tx' = [tx EXCEPT ![c] = NoWrites]
    /\ UNCHANGED <<catalog, status, entries, timetableEntries, leaveVars>>

\* TimetableEntry.destroy outside the transaction: the rows are gone at once.
DestroyEntriesUntransacted(c) ==
    /\ pc[c] = "loaded"
    /\ entries' = {}
    /\ GoTo(c, "destroyed")
    /\ UNCHANGED <<catalog, status, timetableEntries, leaveVars, tx>>

\* TimetableEntry.destroy({where: {timetableId}, transaction}): the
\* statement sees the rows committed when it starts ...
DestroyEntries(c) ==
    /\ pc[c] = "loaded"
    /\ tx' = [tx EXCEPT ![c].seen = entries]
    /\ GoTo(c, "destroying")
    /\ UNCHANGED <<catalog, status, entries, timetableEntries, leaveVars>>

\* ... waits for every transaction that has deleted one of them, and then
\* deletes those that are still there.
DestroyedEntries(c) ==
    /\ pc[c] = "destroying"
    /\ \A d \in Clients \ {c} :
          pc[d] \in Active => tx[d].deleted \cap tx[c].seen = {}
    /\ tx' = [tx EXCEPT ![c].deleted = tx[c].seen \cap entries]
    /\ GoTo(c, "destroyed")
    /\ UNCHANGED <<catalog, status, entries, timetableEntries, leaveVars>>

\* generateTimetableEntries and TimetableEntry.bulkCreate(..., {transaction});
\* a throw of the generator lands in the catch block, which rolls back.
CreateEntries(c) ==
    /\ pc[c] = "destroyed"
    /\ LET run == generateTimetableEntries(batches, subjects, faculty,
                                           classrooms, facultySubjects)
       IN IF run.threw
          THEN GoTo(c, "rolledback") /\ UNCHANGED tx
          ELSE /\ GoTo(c, "created")
               /\ tx' = [tx EXCEPT ![c].inserted = BulkCreateBy(c, run.entries),
                                   ![c].timetableEntries = run.entries]
    /\ UNCHANGED <<catalog, status, entries, timetableEntries, leaveVars>>

\* timetable.update({status: 'pending_approval'}, {transaction}): waits for
\* every transaction that has written the row of the timetable.
UpdateStatus(c) ==
    /\ pc[c] = "created"
    /\ \A d \in Clients \ {c} : pc[d] \in Active => tx[d].status = ""
    /\ tx' = [tx EXCEPT ![c].status = "pending_approval"]
    /\ GoTo(c, "updated")
    /\ UNCHANGED <<catalog, status, entries, timetableEntries, leaveVars>>

\* transaction.commit()
CommitGenerate(c) ==
    /\ pc[c] = "updated"
    /\ entries' = (entries \ tx[c].deleted) \cup tx[c].inserted
    /\ status' = tx[c].status
    /\ timetableEntries' = tx[c].timetableEntries
    /\ GoTo(c, "committed")
    /\ UNCHANGED <<catalog, leaveVars, tx>>

\* A statement of the transaction fails (the bulk insert, the update, the
\* commit; a lost connection): the catch block rolls back.
FailGenerate(c) ==
    /\ pc[c] \in Active \ {"loaded"}
    /\ GoTo(c, "rolledback")
    /\ UNCHANGED <<catalog, status, entries, timetableEntries, leaveVars, tx>>

TxNext ==
    \E c \in Clients :
        \/ BeginGenerate(c)
        \/ DestroyEntries(c)
        \/ DestroyedEntries(c)
        \/ CreateEntries(c)
        \/ UpdateStatus(c)
        \/ CommitGenerate(c)
        \/ FailGenerate(c)

\* A row added by hand before the run (POST /:id/entries).
ManualRow ==
    WithId(Row([timetableId |-> TimetableId, day |-> "Tuesday", startTime |-> 9,
                endTime |-> 10, subjectId |-> 1, facultyId |-> 1, batchId |-> 1,
                classroomId |-> 1, type |-> "lecture"]), <<0, 1>>)

TxInit ==
    /\ batches \in {BatchRows(s) : s \in BatchCatalogs}
    /\ subjects \in {SubjectRows(<<h>>) : h \in HourProfiles}
    /\ classrooms \in {ClassroomRows(r) : r \in ClassroomCatalogs}
    /\ faculty \in {FacultyRows(f) : f \in FacultyCatalogs}
    /\ facultySubjects =
         EligibilityRows([p \in FacultyIds \X {1} |-> IF p[1] = 1 THEN 9 ELSE 4], 1)
    /\ status \in {"draft", "approved"}
    /\ entries \in {{}, {ManualRow}}
    /\ timetableEntries = <<>>
    /\ timetable = [startDate |-> 2, endDate |-> 12, isActive |-> TRUE]
    /\ users = <<>>
    /\ FacultySubjects = <<>>
    /\ leaveRequests = {}
    /\ substitutions = {}
    /\ tx = [c \in Clients |-> NoWrites]

\* RunSpec: one generate request at a time.
RunInit ==
    /\ TxInit
    /\ pc = [c \in Clients |-> IF c = 1 THEN "idle" ELSE "rejected"]

RunSpec == RunInit /\ [][TxNext]_vars

\* RaceSpec: two generate requests for the same timetable at once.
RaceInit ==
    /\ TxInit
    /\ pc = [c \in Clients |-> "idle"]

RaceSpec == RaceInit /\ [][TxNext]_vars

(***************************************************************************)
(* POST /:id/entries served to two clients at once.  The handler opens no  *)
(* transaction and takes no lock: the conflict query and the insert are    *)
(* two statements, and statements of other requests run between them.      *)
(* pc[c] is the step of client c's request and tx[c].inserted the row its  *)
(* TimetableEntry.create is about to insert.                               *)
(***************************************************************************)
\* The handler up to the conflict query, which finds nothing.
CheckEntry(c, body) ==
    /\ pc[c] = "idle"
    /\ PostEntry(body).response.code = 201
    /\ GoTo(c, "checked")
    /\ tx' = [tx EXCEPT ![c].inserted = {WithId(PostEntry(body).response.entry, <<c, 1>>)}]
    /\ UNCHANGED <<catalog, status, entries, timetableEntries, leaveVars>>

\* One of the early returns: 400.
RejectEntry(c, body) ==
    /\ pc[c] = "idle"
    /\ PostEntry(body).response.code = 400
    /\ GoTo(c, "rejected")
    /\ UNCHANGED <<catalog, status, entries, timetableEntries, leaveVars, tx>>

\* TimetableEntry.create and the 201.
CreateEntry(c) ==
    /\ pc[c] = "checked"
    /\ entries' = entries \cup tx[c].inserted
    /\ GoTo(c, "created")
    /\ UNCHANGED <<catalog, status, timetableEntries, leaveVars, tx>>

\* TimetableEntry.create fails: the catch block answers 500.
FailEntry(c) ==
    /\ pc[c] = "checked"
    /\ GoTo(c, "failed")
    /\ UNCHANGED <<catalog, status, entries, timetableEntries, leaveVars, tx>>

AddNext ==
    \E c \in Clients :
        \/ \E body \in AddBodies : CheckEntry(c, body)
        \/ \E body \in AddBodies : RejectEntry(c, body)
        \/ CreateEntry(c)
        \/ FailEntry(c)

\* AddSpec: two add-entry requests for the same timetable at once.
AddInit ==
    /\ batches = BatchRows(<<60, 30>>)
    /\ subjects = SubjectRows(<<<<1, 0, 0>>>>)
    /\ classrooms = ClassroomRows(<<<<70, FALSE>>, <<40, TRUE>>>>)
    /\ faculty = FacultyRows(<<1, 2>>)
    /\ facultySubjects =
         EligibilityRows([p \in FacultyIds \X {1} |-> IF p[1] = 1 THEN 9 ELSE 4], 1)
    /\ status \in {"draft", "published"}
    /\ entries \in {{}, {ManualRow}}
    /\ timetableEntries = <<>>
    /\ timetable = [startDate |-> 2, endDate |-> 12, isActive |-> TRUE]
    /\ users = <<>>
    /\ FacultySubjects = <<>>
    /\ leaveRequests = {}
    /\ substitutions = {}
    /\ pc = [c \in Clients |-> "idle"]
    /\ tx = [c \in Clients |-> NoWrites]

AddSpec == AddInit /\ [][AddNext]_vars

(***************************************************************************)
(* Properties of the candidate ranking, the leave requests and the         *)
(* substitution requests.                                                  *)
(***************************************************************************)
PositionOf(input, facultyId) ==
    CHOOSE k \in DOMAIN input :
        /\ input[k].facultyId = facultyId
        /\ \A j \in 1..(k - 1) : input[j].facultyId # facultyId

\* `list` is in non-increasing preference and equal preferences stand in
\* the order they have in `input`.
KeepsRank(list, input) ==
    /\ \A i, j \in DOMAIN list :
          i < j => list[i].preference >= list[j].preference
    /\ \A i, j \in DOMAIN list :
          i < j /\ list[i].preference = list[j].preference
             => PositionOf(input, list[i].facultyId)
                   < PositionOf(input, list[j].facultyId)

\* C11: the candidate list used for a subject (the generator's
\* facultyPreferences and every answer of the potentialSubstitutes query) is
\* in non-increasing preference, and candidates of equal preference keep
\* their relative input order.
C11_RankedStable ==
    \A s \in SubjectIds :
        /\ KeepsRank(facultyPreferences(facultySubjects, s),
                     SelectRows(facultySubjects, s))
        /\ \A f \in DOMAIN users :
              \A list \in potentialSubstitutes(users[f], s, f) :
                  KeepsRank(list, SelectRows(FacultySubjects, s))

\* C12: a generation run is atomic for its timetable.  The committed entries
\* and status change in no step but the commit of a run, and that step
\* leaves exactly the rows and the status of a successful generation; a run
\* that fails after the discard leaves both as they were before it.
C12_RunAtomic ==
    [][(entries' # entries \/ status' # status) =>
          \E c \in Clients :
              /\ pc[c] = "updated" /\ pc'[c] = "committed"
              /\ PostGenerate.response.code = 200
              /\ {WithoutId(e) : e \in entries'} = PostGenerate.entries
              /\ Cardinality(entries') = Cardinality(PostGenerate.entries)
              /\ status' = PostGenerate.status]_vars

\* A run that had discarded the stored row and inserted its own rows was
\* rolled back, and the stored row is there.
C12_Witness ==
    /\ pc[1] = "rolledback"
    /\ tx[1].deleted = {ManualRow}
    /\ tx[1].inserted # {}
    /\ entries = {ManualRow}
    /\ status = "draft"

\* C13: two generate requests for the same timetable at once are serialized:
\* once both are answered, the stored entries are the rows of exactly one of
\* the committed runs (none twice, none of the other run), and no two stored
\* rows double-book a faculty member, a batch or a classroom.
C13_RunsSerialized ==
    (/\ \A c \in Clients : pc[c] \in Finished
     /\ \E c \in Clients : pc[c] = "committed")
        => /\ \E c \in Clients : pc[c] = "committed" /\ entries = tx[c].inserted
           /\ \A a, b \in entries : a # b => ~DoubleBooked(a, b)

\* A leave request that passes the checks of POST /api/leaves.
ValidLeave(facultyId, startDate, endDate) ==
    /\ startDate # 0 /\ endDate # 0
    /\ startDate <= endDate
    /\ startDate > Today
    /\ facultyId \in DOMAIN users
    /\ overlappingLeaves(facultyId, startDate, endDate) = {}

\* The active eligibility rows of a subject that name another faculty.
Eligible(subjectId, facultyId) ==
    {i \in DOMAIN FacultySubjects :
        /\ FacultySubjects[i].subjectId = subjectId
        /\ FacultySubjects[i].isActive
        /\ FacultySubjects[i].facultyId # facultyId}

\* The faculty of the highest preference among them.
TopEligible(subjectId, facultyId) ==
    {FacultySubjects[i].facultyId : i \in
        {i \in Eligible(subjectId, facultyId) :
            \A j \in Eligible(subjectId, facultyId) :
                FacultySubjects[i].preference >= FacultySubjects[j].preference}}

\* The dates of a range that fall on a day of the week.
DatesOn(day, startDate, endDate) ==
    {d \in startDate..endDate : daysOfWeek[(d % 7) + 1] = day}

\* The offers a handler outcome has added for an entry and a date.
CreatedFor(o, entry, date) ==
    {s \in o.substitutions \ substitutions :
        s.timetableEntryId = entry /\ s.date = date}

\* C14: when a leave of faculty F is processed, every entry of F in the
\* published timetable and every date of the leave range that falls on the
\* entry's day get exactly one substitution, pending, addressed to the
\* highest-preference active eligible faculty of the entry's subject other
\* than F.
C14_OneOfferPerSession ==
    \A f \in LeaveFaculty, r \in LeaveRanges :
        ValidLeave(f, r[1], r[2]) =>
            \A answer \in Answers(f) :
                LET o == PostLeave(f, r[1], r[2], answer)
                IN \A e \in affectedEntries(f, r[1], r[2]) :
                     \A d \in DatesOn(e.day, r[1], r[2]) :
                        /\ Cardinality(CreatedFor(o, e, d)) = 1
                        /\ \A s \in CreatedFor(o, e, d) :
                              /\ s.status = "pending"
                              /\ s.originalFacultyId = f
                              /\ s.substituteFacultyId \in TopEligible(e.subjectId, f)

\* C15: substitutions are created by the approval of a leave.  After every
\* step no substitution refers to a leave request that is still pending, and
\* a step that approves a leave request ends with a substitution for every
\* entry of its faculty in the timetable published at that moment and every
\* date of the leave on the entry's day.
C15_OffersAtApproval ==
    [][/\ \A l \in leaveRequests' :
             l.status = "pending"
                => ~\E s \in substitutions' : s.leaveRequestId = l.id
       /\ \A l \in leaveRequests :
             (l.status = "pending" /\ [l EXCEPT !.status = "approved"] \in leaveRequests')
                => \A e \in affectedEntries(l.facultyId, l.startDate, l.endDate) :
                     \A d \in DatesOn(e.day, l.startDate, l.endDate) :
                        \E s \in substitutions' :
                            /\ s.leaveRequestId = l.id
                            /\ s.timetableEntryId = e
                            /\ s.date = d]_vars

\* C16: if the subject of an affected entry has no eligible substitute, the
\* leave request still succeeds and the substitution of that entry and date
\* is stored with no substitute (null) and status pending.
C16_NullSubstituteStored ==
    \A f \in LeaveFaculty, r \in LeaveRanges :
        ValidLeave(f, r[1], r[2]) =>
            \A answer \in Answers(f) :
                LET o == PostLeave(f, r[1], r[2], answer)
                IN \A e \in affectedEntries(f, r[1], r[2]) :
                     Eligible(e.subjectId, f) = {}
                        => /\ o.response.code = 201
                           /\ \A d \in DatesOn(e.day, r[1], r[2]) :
                                 \E s \in CreatedFor(o, e, d) :
                                     /\ s.substituteFacultyId = 0
                                     /\ s.status = "pending"

\* C17: in every reachable state, after any sequence of leave, accept,
\* decline and assign requests, a substitution that names a substitute
\* names one other than its original faculty.
C17_SubstituteIsAnother ==
    \A s \in substitutions :
        s.substituteFacultyId # 0 => s.substituteFacultyId # s.originalFacultyId

\* A substitution names a substitute, and an admin's request to assign its
\* original faculty to it is not served.
C17_Witness ==
    \E s \in substitutions :
        /\ s.substituteFacultyId # 0
        /\ PutAssign(s, s.originalFacultyId).response.code # 200
        /\ PutAssign(s, s.originalFacultyId).substitutions = substitutions

\* Faculty f has an entry on the weekday of the substitution's date whose
\* time overlaps the session of the substitution.
HasConflict(s, f) ==
    \E e \in entries :
        /\ e.facultyId = f
        /\ e.day = daysOfWeek[(s.date % 7) + 1]
        /\ Overlap(e.startTime, e.endTime,
                   s.timetableEntryId.startTime, s.timetableEntryId.endTime)

\* C18: an accept by a faculty who already has an entry on the weekday of
\* the substitution's date that overlaps the offered session is rejected,
\* and the substitution keeps its status and its substitute.
C18_ConflictingAcceptRejected ==
    \A s \in substitutions, f \in RequestFaculty :
        HasConflict(s, f)
            => /\ PutAccept(s, f).response.code # 200
               /\ PutAccept(s, f).substitutions = substitutions

\* A pending substitution is addressed to a faculty who teaches at that
\* very time, and this faculty's accept is turned down.
C18_Witness ==
    \E s \in substitutions :
        /\ s.status = "pending"
        /\ s.substituteFacultyId # 0
        /\ HasConflict(s, s.substituteFacultyId)
        /\ PutAccept(s, s.substituteFacultyId).response.code >= 400

\* C19: an accept answers with success only for a pending substitution that
\* is addressed to the accepting faculty or to nobody, and then the row has
\* status accepted and this faculty as substitute; every other accept
\* leaves the substitutions as they were.
C19_AcceptContract ==
    \A s \in substitutions, f \in RequestFaculty :
        LET o == PutAccept(s, f)
        IN IF o.response.code = 200
           THEN /\ s.status = "pending"
                /\ s.substituteFacultyId \in {f, 0}
                /\ o.substitutions =
                       Updated(s, [substituteFacultyId |-> f, status |-> "accepted"])
           ELSE o.substitutions = substitutions

\* A pending substitution is addressed to one faculty; another faculty's
\* accept is refused with 403, the addressed faculty's accept ends in the
\* catch block, and neither changes the row.
C19_Witness ==
    \E s \in substitutions, f \in DOMAIN users :
        /\ s.status = "pending"
        /\ s.substituteFacultyId \in DOMAIN users
        /\ f # s.substituteFacultyId
        /\ PutAccept(s, f).response.code = 403
        /\ PutAccept(s, f).substitutions = substitutions
        /\ PutAccept(s, s.substituteFacultyId).response.code = 500
        /\ PutAccept(s, s.substituteFacultyId).substitutions = substitutions

\* The faculty of the highest preference among the active eligible faculty
\* of a substitution's subject other than the original faculty and `g`.
TopRemaining(s, g) ==
    LET rest == {i \in Eligible(s.timetableEntryId.subjectId, s.originalFacultyId) :
                    FacultySubjects[i].facultyId # g}
    IN {FacultySubjects[i].facultyId : i \in
           {i \in rest : \A j \in rest :
               FacultySubjects[i].preference >= FacultySubjects[j].preference}}

\* The rows a handler outcome holds for the session and date of `s`.
RowsFor(o, s) ==
    {t \in o.substitutions :
        t.timetableEntryId = s.timetableEntryId /\ t.date = s.date}

\* C20: when the addressed faculty declines a pending substitution and
\* other eligible faculty remain, the session and date end with exactly one
\* substitution, pending, addressed to the highest-ranked eligible faculty
\* who is neither the original faculty nor the one who declined.
C20_DeclineMovesOn ==
    \A s \in substitutions :
        (/\ s.status = "pending"
         /\ s.substituteFacultyId \in DOMAIN users
         /\ TopRemaining(s, s.substituteFacultyId) # {})
            => \A answer \in DeclineAnswers(s, s.substituteFacultyId) :
                   LET o == PutDecline(s, s.substituteFacultyId, answer)
                   IN /\ Cardinality(RowsFor(o, s)) = 1
                      /\ \A t \in RowsFor(o, s) :
                            /\ t.status = "pending"
                            /\ t.substituteFacultyId
                                  \in TopRemaining(s, s.substituteFacultyId)

\* C21: when the addressed faculty declines a pending substitution and no
\* other faculty is eligible for it, the substitution ends pending with no
\* substitute.
C21_DeclineClearsSubstitute ==
    \A s \in substitutions :
        (/\ s.status = "pending"
         /\ s.substituteFacultyId \in DOMAIN users
         /\ TopRemaining(s, s.substituteFacultyId) = {})
            => \A answer \in DeclineAnswers(s, s.substituteFacultyId) :
                   LET o == PutDecline(s, s.substituteFacultyId, answer)
                   IN /\ RowsFor(o, s) # {}
                      /\ \A t \in RowsFor(o, s) :
                            /\ t.status = "pending"
                            /\ t.substituteFacultyId = 0

\* A handler outcome changes the status or the substitute of the stored
\* substitution `old` only from pending, and only to accepted, assigned or
\* pending.
MovesAsAllowed(o, old) ==
    \A new \in {t \in o.substitutions : t.id = old.id} :
        (new.status # old.status
            \/ new.substituteFacultyId # old.substituteFacultyId)
            => /\ old.status = "pending"
               /\ new.status \in {"accepted", "assigned", "pending"}

C23_NoOfferForClosedLeave ==
    \A l \in leaveRequests :
        l.status \in {"rejected", "cancelled"}
            => \A s \in substitutions : s.leaveRequestId # l.id

\* A pending leave request has substitutions, and its rejection succeeds
\* and leaves none of them.
C23_Witness ==
    \E l \in leaveRequests :
        /\ l.status = "pending"
        /\ \E s \in substitutions : s.leaveRequestId = l.id
        /\ PutLeaveReject(l.id, "exams").response.code = 200
        /\ \A s \in PutLeaveReject(l.id, "exams").substitutions :
              s.leaveRequestId # l.id

\* C24: in every state the requests lead to, a timetable entry and a date
\* have at most one substitution.
C24_OneOfferPerEntryAndDate ==
    \A s, t \in substitutions :
        (s.timetableEntryId = t.timetableEntryId /\ s.date = t.date) => s = t

\* A leave request with a substitution is stored, and a second request of
\* the same faculty for a range holding that substitution's date, valid in
\* every other respect, is refused for overlapping it.
C24_Witness ==
    \E l \in leaveRequests, s \in substitutions, r \in LeaveRanges :
        /\ s.leaveRequestId = l.id
        /\ r[1] <= s.date /\ s.date <= r[2]
        /\ <<r[1], r[2]>> # <<l.startDate, l.endDate>>
        /\ Today < r[1] /\ r[1] <= r[2]
        /\ \A answer \in Answers(l.facultyId) :
              /\ PostLeave(l.facultyId, r[1], r[2], answer).response.code = 400
              /\ PostLeave(l.facultyId, r[1], r[2], answer).substitutions
                    = substitutions

\* The two tables as a handler outcome leaves them committed.
Committed(o) == <<o.leaveRequests, o.substitutions>>

\* Whether its emails are delivered or fail, the handler commits what it
\* has written.
SameEitherWay(o, sends) ==
    \A delivered \in BOOLEAN :
        Committed(Notified(o, sends, delivered)) = Committed(o)

\* C26: for the creation, approval and rejection of a leave and for accept,
\* decline and assign, the committed state is the same whether each email
\* is delivered or fails: a failed notification rolls nothing back.
C26_NotificationIndependent ==
    /\ \A facultyId \in LeaveFaculty, r \in LeaveRanges :
          \A answer \in Answers(facultyId) :
              SameEitherWay(PostLeave(facultyId, r[1], r[2], answer),
                            MailsCandidates(PostLeave(facultyId, r[1], r[2], answer),
                                            answer))
    /\ \A id \in LeaveIds :
          /\ SameEitherWay(PutLeaveApprove(id), Succeeded(PutLeaveApprove(id)))
          /\ SameEitherWay(PutLeaveReject(id, "exams"),
                           Succeeded(PutLeaveReject(id, "exams")))
    /\ \A s \in SubstitutionIds, f \in RequestFaculty :
          /\ SameEitherWay(PutAccept(s, f), Succeeded(PutAccept(s, f)))
          /\ SameEitherWay(PutAssign(s, f), Succeeded(PutAssign(s, f)))
          /\ \A answer \in DeclineAnswers(s, f) :
                SameEitherWay(PutDecline(s, f, answer),
                              Succeeded(PutDecline(s, f, answer)))

\* A pending leave request with substitutions is approved while the email
\* to the faculty fails, and a leave request whose emails to the candidates
\* fail is created with its substitutions.
C26_Witness ==
    /\ \E l \in leaveRequests :
          /\ \E s \in substitutions : s.leaveRequestId = l.id
          /\ Notified(PutLeaveApprove(l.id), TRUE, FALSE).response.code = 200
          /\ Notified(PutLeaveApprove(l.id), TRUE, FALSE).leaveRequests
                # leaveRequests
    /\ \E facultyId \in LeaveFaculty, r \in LeaveRanges :
          \E answer \in Answers(facultyId) :
              LET o == PostLeave(facultyId, r[1], r[2], answer)
              IN /\ MailsCandidates(o, answer)
                 /\ Notified(o, TRUE, FALSE).response.code = 201
                 /\ Notified(o, TRUE, FALSE).substitutions # substitutions

\* Occupancy as the entries placed before a unit define it.
FacultyFree(prior, facultyId, day, start) ==
    \A e \in prior : ~(e.facultyId = facultyId /\ e.day = day /\ e.startTime = start)

BatchFree(prior, batchId, day, start) ==
    \A e \in prior : ~(e.batchId = batchId /\ e.day = day /\ e.startTime = start)

RoomFree(prior, classroomId, day, start) ==
    \A e \in prior : ~(e.classroomId = classroomId /\ e.day = day /\ e.startTime = start)

\* A room is compatible with a session: a lab exactly for a practical, and
\* large enough for the batch.
Compatible(classroom, type, batch) ==
    /\ classroom.isLab = (type = "practical")
    /\ classroom.capacity >= batch.strength

\* The eligibility rows of the subject whose faculty is free, and the
\* catalog positions of the compatible free rooms, in a slot.
FreeFaculty(prior, subjectId, day, start) ==
    {r \in Range(facultySubjects) :
        r.subjectId = subjectId /\ FacultyFree(prior, r.facultyId, day, start)}

FreeRooms(prior, type, batch, day, start) ==
    {i \in DOMAIN classrooms :
        /\ Compatible(classrooms[i], type, batch)
        /\ RoomFree(prior, classrooms[i].id, day, start)}

CanPlace(prior, e, batch, d, s) ==
    /\ BatchFree(prior, e.batchId, days[d], timeSlots[s].start)
    /\ FreeFaculty(prior, e.subjectId, days[d], timeSlots[s].start) # {}
    /\ FreeRooms(prior, e.type, batch, days[d], timeSlots[s].start) # {}

\* Position of a (day, slot) in the day-then-slot order.
SlotOrder(d, s) == (d - 1) * Len(timeSlots) + s

\* The k-th entry of a run sits in the first slot that could take it, with
\* the highest-ranked free faculty and the first compatible free room.
FirstFit(list, k) ==
    LET e == list[k]
        prior == {list[i] : i \in 1..(k - 1)}
        batch == CHOOSE b \in Range(batches) : b.id = e.batchId
        d == CHOOSE i \in DOMAIN days : days[i] = e.day
        s == CHOOSE i \in DOMAIN timeSlots : timeSlots[i].start = e.startTime
    IN /\ CanPlace(prior, e, batch, d, s)
       /\ \A d2 \in DOMAIN days, s2 \in DOMAIN timeSlots :
             SlotOrder(d2, s2) < SlotOrder(d, s) => ~CanPlace(prior, e, batch, d2, s2)
       /\ \E r \in FreeFaculty(prior, e.subjectId, e.day, e.startTime) :
             /\ r.facultyId = e.facultyId
             /\ \A q \in FreeFaculty(prior, e.subjectId, e.day, e.startTime) :
                   r.preference >= q.preference
       /\ \E i \in FreeRooms(prior, e.type, batch, e.day, e.startTime) :
             /\ classrooms[i].id = e.classroomId
             /\ \A j \in FreeRooms(prior, e.type, batch, e.day, e.startTime) : i <= j

\* One batch that needs 3 lectures, faculty ranked 9 and 4 (rows in either
\* order), one sufficient non-lab room and one lab.
ThreeLectures(rows) ==
    generateTimetableEntries(BatchRows(<<60>>), SubjectRows(<<<<3, 0, 0>>>>),
                             FacultyRows(<<1, 2>>),
                             ClassroomRows(<<<<70, FALSE>>, <<40, TRUE>>>>),
                             rows).entries

AllToTopRanked(list) ==
    /\ Len(list) = 3
    /\ \A k \in DOMAIN list : list[k].facultyId = 1 /\ list[k].classroomId = 1
    /\ Cardinality({<<list[k].day, list[k].startTime>> : k \in DOMAIN list}) = 3

\* C27: every entry of a generation run is placed in the first (day, slot)
\* of the day-then-slot order in which its batch, an eligible faculty and a
\* compatible room are all free, with the highest-ranked free eligible
\* faculty and the first compatible free room of the catalog; and 3
\* lectures of one batch with faculty ranked 9 and 4, a sufficient non-lab
\* room and a lab all go to the rank-9 faculty in the non-lab room in three
\* distinct slots.
C27_FirstFit ==
    /\ status = "pending_approval"
          => \A k \in DOMAIN timetableEntries : FirstFit(timetableEntries, k)
    /\ AllToTopRanked(ThreeLectures(
          <<[facultyId |-> 1, subjectId |-> 1, preference |-> 9],
            [facultyId |-> 2, subjectId |-> 1, preference |-> 4]>>))
    /\ AllToTopRanked(ThreeLectures(
          <<[facultyId |-> 2, subjectId |-> 1, preference |-> 4],
            [facultyId |-> 1, subjectId |-> 1, preference |-> 9]>>))

\* A run has placed an entry behind the first slot of the week, with the
\* higher-ranked of two free eligible faculty who comes second in the rows,
\* and another entry in a room that is not the first of the catalog.
C27_Witness ==
    /\ status = "pending_approval"
    /\ \E k \in DOMAIN timetableEntries :
          LET e == timetableEntries[k]
              prior == {timetableEntries[i] : i \in 1..(k - 1)}
          IN /\ <<e.day, e.startTime>> # <<days[1], timeSlots[1].start>>
             /\ \E q \in FreeFaculty(prior, e.subjectId, e.day, e.startTime) :
                   /\ q.facultyId < e.facultyId
                   /\ \E r \in FreeFaculty(prior, e.subjectId, e.day, e.startTime) :
                         r.facultyId = e.facultyId /\ q.preference < r.preference
    /\ \E k \in DOMAIN timetableEntries : timetableEntries[k].classroomId # 1

\* The kinds of session in the order assignSessions is called for them, and
\* the sessions per week a subject asks of each.
Kinds == <<"lecture", "tutorial", "practical">>

SessionsPerWeek(subject, type) ==
    IF type = "lecture" THEN subject.lectureHoursPerWeek
    ELSE IF type = "tutorial" THEN subject.tutorialHoursPerWeek
    ELSE subject.practicalHoursPerWeek

\* Position of a requirement (batch b, subject j, kind t, as indices) in the
\* order the run processes them.
ReqRank(b, j, t) == ((b - 1) * Len(subjects) + (j - 1)) * Len(Kinds) + t

RankOfEntry(e) ==
    ReqRank(CHOOSE b \in DOMAIN batches : batches[b].id = e.batchId,
            CHOOSE j \in DOMAIN subjects : subjects[j].id = e.subjectId,
            CHOOSE t \in DOMAIN Kinds : Kinds[t] = e.type)

\* The entries a run holds for a requirement, and those it held when it
\* had finished with the requirement.
PlacedFor(list, b, j, t) ==
    {k \in DOMAIN list : RankOfEntry(list[k]) = ReqRank(b, j, t)}

PlacedUpTo(list, b, j, t) ==
    {list[k] : k \in {i \in DOMAIN list : RankOfEntry(list[i]) <= ReqRank(b, j, t)}}

\* A requirement of which the run has placed fewer sessions than asked.
ShortOf(list, b, j, t) ==
    Cardinality(PlacedFor(list, b, j, t)) < SessionsPerWeek(subjects[j], Kinds[t])

\* C28: when a run returns fewer entries than a requirement (batch,
\* subject, kind) asks for, then with the entries placed when the run left
\* that requirement no (day, slot) had the batch, an eligible faculty and a
\* compatible room all free: no unit that could be placed is skipped.
C28_UnassignedOnlyWhenExhausted ==
    status = "pending_approval"
        => \A b \in DOMAIN batches, j \in DOMAIN subjects, t \in DOMAIN Kinds :
              ShortOf(timetableEntries, b, j, t)
                  => \A d \in DOMAIN days, s \in DOMAIN timeSlots :
                        ~CanPlace(PlacedUpTo(timetableEntries, b, j, t),
                                  [batchId |-> batches[b].id,
                                   subjectId |-> subjects[j].id,
                                   type |-> Kinds[t]],
                                  batches[b], d, s)

\* A run has left a requirement short and has placed entries of a later
\* requirement.
C28_Witness ==
    /\ status = "pending_approval"
    /\ \E b \in DOMAIN batches, j \in DOMAIN subjects, t \in DOMAIN Kinds :
          /\ ShortOf(timetableEntries, b, j, t)
          /\ \E k \in DOMAIN timetableEntries :
                RankOfEntry(timetableEntries[k]) > ReqRank(b, j, t)

\* A requirement that asks for a session and that no slot of the empty
\* week can take: its subject has no eligible faculty, or no room is
\* compatible with it.
Unsatisfiable(b, j, t) ==
    /\ SessionsPerWeek(subjects[j], Kinds[t]) > 0
    /\ \A d \in DOMAIN days, s \in DOMAIN timeSlots :
          ~CanPlace({}, [batchId |-> batches[b].id, subjectId |-> subjects[j].id,
                         type |-> Kinds[t]],
                    batches[b], d, s)

\* The run on the stored catalogs.
ThisRun ==
    generateTimetableEntries(batches, subjects, faculty, classrooms, facultySubjects)

\* C29: a run over catalogs with an unsatisfiable requirement comes to its
\* end and returns its entries: the entries placed before the failure are
\* in the result, and every other requirement has been attempted, so that
\* one left short had no free combination.
C29_UnsatisfiableDoesNotEndRun ==
    (\E b \in DOMAIN batches, j \in DOMAIN subjects, t \in DOMAIN Kinds :
        Unsatisfiable(b, j, t))
        => /\ ~ThisRun.threw
           /\ \A b \in DOMAIN batches, j \in DOMAIN subjects, t \in DOMAIN Kinds :
                 ShortOf(ThisRun.entries, b, j, t)
                     => \A d \in DOMAIN days, s \in DOMAIN timeSlots :
                           ~CanPlace(PlacedUpTo(ThisRun.entries, b, j, t),
                                     [batchId |-> batches[b].id,
                                      subjectId |-> subjects[j].id,
                                      type |-> Kinds[t]],
                                     batches[b], d, s)

\* An active eligibility row names a faculty who is not in the faculty
\* list loaded for the run.
NamesUnloadedFaculty ==
    \E r \in Range(facultySubjects) : r.facultyId \notin {f.id : f \in Range(faculty)}

\* C30: a generate request on a draft timetable whose eligibility rows name
\* a faculty outside the loaded faculty list still completes and returns
\* its entries.
C30_EligibilityNeverAborts ==
    (status = "draft" /\ NamesUnloadedFaculty)
        => /\ PostGenerate.response.code = 200
           /\ PostGenerate.status = "pending_approval"

\* The rows of the entries the run on the stored catalogs returns.
RowsOfThisRun == BulkCreate(ThisRun.entries)

\* C31: a generate request that succeeds on a draft or pending_approval
\* timetable leaves exactly the entries of its run stored, none of the rows
\* stored before that the run did not produce, and the status
\* pending_approval.
C31_GenerateReplacesEntries ==
    status \in {"draft", "pending_approval"}
        => LET o == PostGenerate
               rows == BulkCreate(o.timetableEntries)
           IN o.response.code = 200
                 => /\ o.entries = rows
                    /\ (entries \ rows) \cap o.entries = {}
                    /\ o.status = "pending_approval"

\* A timetable in pending_approval holds a row its run would not produce,
\* and a generate request on it succeeds.
C31_Witness ==
    /\ status = "pending_approval"
    /\ \E e \in entries : e \notin RowsOfThisRun
    /\ PostGenerate.response.code = 200
    /\ PostGenerate.entries = RowsOfThisRun

\* C32: in a cascade in which every addressed faculty declines, nobody is
\* addressed twice, so that the candidates run out and the substitution
\* ends pending with no substitute: the decline of the addressed faculty
\* leaves the session and date with a substitution that is no longer
\* addressed to this faculty.
C32_DeclineAdvancesCascade ==
    \A s \in substitutions :
        (s.status = "pending" /\ s.substituteFacultyId \in DOMAIN users)
            => \A answer \in DeclineAnswers(s, s.substituteFacultyId) :
                  \A t \in RowsFor(PutDecline(s, s.substituteFacultyId, answer), s) :
                      t.substituteFacultyId # s.substituteFacultyId

\* The tracker after the first k entries of a run have been committed.
RECURSIVE Replay(_, _)
Replay(list, k) ==
    IF k = 0
    THEN [entries |-> <<>>,
          assignedSlots |-> InitAssignedSlots(faculty, batches, classrooms),
          threw |-> FALSE]
    ELSE LET e == list[k]
         IN Commit(Replay(list, k - 1),
                   [kind |-> "found", day |-> e.day,
                    timeSlot |-> [start |-> e.startTime, end |-> e.endTime],
                    facultyId |-> e.facultyId, classroomId |-> e.classroomId],
                   e.type,
                   CHOOSE j \in Range(subjects) : j.id = e.subjectId,
                   CHOOSE b \in Range(batches) : b.id = e.batchId)

\* The tracker and the overlap rule say the same of every resource, day
\* and slot, given the entries produced so far.
TrackerAgrees(tracker, prior) ==
    \A d \in DOMAIN days, s \in DOMAIN timeSlots :
        /\ \A id \in DOMAIN tracker.faculty :
              isSlotAssigned(tracker.faculty[id], days[d], timeSlots[s])
                <=> \E e \in prior :
                       /\ e.facultyId = id /\ e.day = days[d]
                       /\ Overlap(e.startTime, e.endTime,
                                  timeSlots[s].start, timeSlots[s].end)
        /\ \A id \in DOMAIN tracker.batch :
              isSlotAssigned(tracker.batch[id], days[d], timeSlots[s])
                <=> \E e \in prior :
                       /\ e.batchId = id /\ e.day = days[d]
                       /\ Overlap(e.startTime, e.endTime,
                                  timeSlots[s].start, timeSlots[s].end)
        /\ \A id \in DOMAIN tracker.classroom :
              isSlotAssigned(tracker.classroom[id], days[d], timeSlots[s])
                <=> \E e \in prior :
                       /\ e.classroomId = id /\ e.day = days[d]
                       /\ Overlap(e.startTime, e.endTime,
                                  timeSlots[s].start, timeSlots[s].end)

\* C33: at every point of a generation run, the occupancy tracker marks a
\* resource on a day and slot exactly when an entry produced so far uses
\* the resource on that day in an interval that overlaps the slot.
C33_TrackerAgreesWithOverlap ==
    status = "pending_approval"
        => /\ Replay(timetableEntries, Len(timetableEntries)).assignedSlots
                 = ThisRun.assignedSlots
           /\ \A k \in 0..Len(timetableEntries) :
                 TrackerAgrees(Replay(timetableEntries, k).assignedSlots,
                               {timetableEntries[i] : i \in 1..k})

\* A run has produced two entries of one batch in slots of the same day
\* that touch without overlapping.
C33_Witness ==
    /\ status = "pending_approval"
    /\ \E i, k \in DOMAIN timetableEntries :
          /\ timetableEntries[i].batchId = timetableEntries[k].batchId
          /\ timetableEntries[i].day = timetableEntries[k].day
          /\ timetableEntries[i].endTime = timetableEntries[k].startTime

\* The hours of the intervals the time clauses are compared on, and the
\* intervals of an existing entry: those of the stored entries and every
\* pair of hours.
Times == 8..(8 + MaxTime)

Existing ==
    {[startTime |-> x.startTime, endTime |-> x.endTime] : x \in entries}
        \cup [startTime : Times, endTime : Times]

\* C34: for all intervals [s, e) of an existing entry and [S, E) of a
\* candidate session with s < e and S < E, the four time clauses of the
\* conflict query of accept and assign select the entry exactly when
\* S < e and E > s.
C34_FourClausesAreOverlap ==
    \A x \in Existing, S \in Times, E \in Times :
        (x.startTime < x.endTime /\ S < E)
            => (conflictTimeClauses(x, S, E)
                  <=> (S < x.endTime /\ E > x.startTime))

\* A pending substitution is addressed to a faculty whose accept passes the
\* checks before the conflict query; among the intervals compared are an
\* entry that only the fourth clause selects and one that touches the
\* session and is not selected.
C34_Witness ==
    /\ \E x \in substitutions :
          /\ x.status = "pending"
          /\ x.substituteFacultyId \in DOMAIN users
          /\ PutAccept(x, x.substituteFacultyId).response.code = 500
    /\ \E s \in Times, e \in Times, S \in Times, E \in Times :
          /\ s < S /\ S < E /\ E < e
          /\ conflictTimeClauses([startTime |-> s, endTime |-> e], S, E)
          /\ ~conflictTimeClausesThree([startTime |-> s, endTime |-> e], S, E)
    /\ \E s \in Times, e \in Times, E \in Times :
          /\ s < e /\ e < E
          /\ ~conflictTimeClauses([startTime |-> s, endTime |-> e], e, E)

\* C35: two add-entry requests for the same timetable that share a faculty,
\* batch or classroom on the same day with overlapping times are never both
\* stored, however their steps interleave.
C35_ConcurrentAddsExclusive ==
    \A e1 \in entries, e2 \in entries :
        (e1.id # e2.id /\ e1.id[1] \in Clients /\ e2.id[1] \in Clients)
            => ~DoubleBooked(e1, e2)

\* The kinds of session that are no practical, as positions in Kinds.
Taught == {t \in DOMAIN Kinds : Kinds[t] # "practical"}

SubstitutionRequest ==
    \E s \in SubstitutionIds, f \in RequestFaculty :
        \/ AcceptSubstitution(s, f)
        \/ DeclineSubstitution(s, f)
        \/ AssignSubstitution(s, f)

\* C38: an accept, decline or assign request leaves every timetable entry
\* (its facultyId, isSubstitution and originalFacultyId included) and the
\* owning timetable as they were before the request.
C38_SubstitutionRequestsKeepTimetable ==
    [][SubstitutionRequest
          => /\ entries' = entries
             /\ status' = status
             /\ timetable' = timetable]_vars

\* A stored substitution names a stored entry, and its addressed faculty's
\* accept and decline and an assign to it all get past their checks.
C38_Witness ==
    \E x \in substitutions :
        /\ x.timetableEntryId \in entries
        /\ ~x.timetableEntryId.isSubstitution
        /\ x.substituteFacultyId \in DOMAIN users
        /\ PutAccept(x, x.substituteFacultyId).response.code \notin {400, 403, 404}
        /\ PutAssign(x, x.substituteFacultyId).response.code \notin {400, 403, 404}
        /\ \E answer \in DeclineAnswers(x, x.substituteFacultyId) :
              PutDecline(x, x.substituteFacultyId, answer).response.code
                  \notin {400, 403, 404}

\* The changes of status a leave request may go through.
LeaveMoves ==
    {<<"pending", "approved">>, <<"pending", "rejected">>,
     <<"pending", "cancelled">>, <<"approved", "cancelled">>}

\* C39: the status of a leave request changes only from pending to
\* approved, rejected or cancelled and from approved to cancelled; an
\* approve or reject request succeeds only on a pending leave.
C39_LeaveStateMachine ==
    [][/\ \A l \in leaveRequests, m \in leaveRequests' :
             (l.id = m.id /\ l.status # m.status)
                 => <<l.status, m.status>> \in LeaveMoves
       /\ \A l \in leaveRequests :
             l.status # "pending"
                 => /\ PutLeaveApprove(l.id).response.code # 200
                    /\ PutLeaveReject(l.id, "exams").response.code # 200]_vars

\* One leave has been approved and another rejected, and both an approve
\* and a reject request for either are refused.
C39_Witness ==
    \E l \in leaveRequests, m \in leaveRequests :
        /\ l.status = "approved" /\ m.status = "rejected"
        /\ PutLeaveApprove(m.id).response.code = 400
        /\ PutLeaveReject(l.id, "exams").response.code = 400
        /\ PutLeaveCancel(m.id).response.code = 400

====
